---- MODULE Spec2Model ----
(***************************************************************************)
(* Pashto-Bible-Search: the grammar index generator (v15), the root        *)
(* inference engine, the normalizer and the verb conjugation generator.    *)
(*                                                                         *)
(* A Pashto string is a sequence of letters; a letter is written by its    *)
(* Unicode name ("FARSI_YEH" is U+06CC, "YEH" is U+064A, ...).  A Latin    *)
(* string (a romanization) is a sequence of one-letter strings.  A Python  *)
(* dict is a sequence of entries in insertion order, with distinct keys.   *)
(***************************************************************************)
EXTENDS Naturals, Sequences, FiniteSets

VARIABLES
    VERBS,                      \* verb_inflector.py: the lexicon of verbs_lexicon.json
    VERB_LEXICON,               \* generate_grammar_index_v15.py: module-level table
    IRREGULAR_NOUN_ADJ_LEXICON, \* generate_grammar_index_v15.py: module-level table
    lines,                      \* the records of the word-index file, in file order
    pc,                         \* position of the running script
    lineno,                     \* load_word_data: the next line of the file
    word_data,                  \* load_word_data: normalized word -> count, verses
    all_words_set,              \* the vocabulary
    wordno,                     \* index build loop: the next key of word_data
    interpretations,            \* index build loop: interpretations still to be filed
    final_index,                \* root -> identities
    call,                       \* the arguments of the last call of a pure function
    result,                     \* what that call returned
    history,                    \* the calls made so far, each with its result
    chapter,                    \* index_script.py: the chapter number of the file name
    current_verse,              \* index_script.py: the verse being collected, or None
    verse_text,                 \* index_script.py: the lines of that verse
    verse_index,                \* index_script.py: index, word -> verse references
    freq                        \* index_script.py: word -> number of occurrences

vars == <<VERBS, VERB_LEXICON, IRREGULAR_NOUN_ADJ_LEXICON, lines, pc, lineno, word_data,
          all_words_set, wordno, interpretations, final_index, call, result, history,
          chapter, current_verse, verse_text, verse_index, freq>>

\* the state of the corpus indexer
chapterVars == <<chapter, current_verse, verse_text, verse_index, freq>>

-----------------------------------------------------------------------------
(* Bounds *)

\* the number of records in the word-index file
MaxRecords == 2
\* the length of the strings handed to normalize_pashto_char
MaxLen == 3
\* the number of calls of find_all_possible_roots made in a row
MaxCalls == 2

-----------------------------------------------------------------------------
(* Generic helpers: Python's str and dict operations *)

Range(s) == {s[i] : i \in 1..Len(s)}

\* all sequences over S of length at most n
SeqsUpTo(S, n) == UNION {[1..k -> S] : k \in 0..n}

\* str.startswith
StartsWith(text, prefix) ==
    /\ Len(prefix) <= Len(text)
    /\ SubSeq(text, 1, Len(prefix)) = prefix

\* str.endswith
EndsWith(text, suffix) ==
    /\ Len(suffix) <= Len(text)
    /\ SubSeq(text, Len(text) - Len(suffix) + 1, Len(text)) = suffix

\* text[:-n] for n >= 1
DropLast(text, n) == IF n >= Len(text) THEN <<>> ELSE SubSeq(text, 1, Len(text) - n)

\* str.replace(old, new) for one-letter old and new
Replace(text, old, new) == [i \in 1..Len(text) |-> IF text[i] = old THEN new ELSE text[i]]

\* the positions of key in a dict (at most one)
KeyIndex(dict, key) == {i \in 1..Len(dict) : dict[i].key = key}

HasKey(dict, key) == KeyIndex(dict, key) # {}

\* dict[key] for a key that is present
Get(dict, key) == dict[CHOOSE i \in KeyIndex(dict, key) : TRUE]

\* dict[key] = value: a new key is added at the end, a known key is overwritten
SetItem(dict, key, value) ==
    IF HasKey(dict, key)
    THEN [i \in 1..Len(dict) |->
            IF dict[i].key = key THEN [key |-> key, value |-> value] ELSE dict[i]]
    ELSE Append(dict, [key |-> key, value |-> value])

\* list(set(xs)) iterates the set in an order that is not fixed: every list with
\* the elements of S, each once, is a possible value
ListsOfSet(S) == {l \in [1..Cardinality(S) -> S] : Range(l) = S}

-----------------------------------------------------------------------------
(* Unicode normalization *)

\* as replacements, but the last variant is mapped to the Arabic yeh
replacementsToArabicYeh ==
    << [old |-> "YEH",          new |-> "FARSI_YEH"],
       [old |-> "ALEF_MAKSURA", new |-> "FARSI_YEH"],
       [old |-> "YEH_HAMZA",    new |-> "YEH"] >>

\* the dict literal of normalize_pashto_char, in insertion order
replacements ==
    << [old |-> "YEH",          new |-> "FARSI_YEH"],
       [old |-> "ALEF_MAKSURA", new |-> "FARSI_YEH"],
       [old |-> "YEH_HAMZA",    new |-> "FARSI_YEH"] >>

RECURSIVE ReplaceAll(_, _)
ReplaceAll(text, reps) ==
    IF reps = <<>> THEN text
    ELSE ReplaceAll(Replace(text, Head(reps).old, Head(reps).new), Tail(reps))

normalize_pashto_char(text) == ReplaceAll(text, replacements)

-----------------------------------------------------------------------------
(* Transliteration engine *)

\* TRANSLIT_MAP after its update with the vowel combinations, in insertion order
TRANSLIT_MAP ==
    <<
       [key |-> <<"ALEF">>, value |-> <<"a", "a">>],
       [key |-> <<"ALEF_MADDA">>, value |-> <<"a", "a">>],
       [key |-> <<"BEH">>, value |-> <<"b">>],
       [key |-> <<"PEH">>, value |-> <<"p">>],
       [key |-> <<"TEH">>, value |-> <<"t">>],
       [key |-> <<"TEH_WITH_RING">>, value |-> <<"T">>],
       [key |-> <<"THEH">>, value |-> <<"s">>],
       [key |-> <<"JEEM">>, value |-> <<"j">>],
       [key |-> <<"TCHEH">>, value |-> <<"c", "h">>],
       [key |-> <<"HAH">>, value |-> <<"h">>],
       [key |-> <<"KHAH">>, value |-> <<"k", "h">>],
       [key |-> <<"TSE">>, value |-> <<"t", "s">>],
       [key |-> <<"DZE">>, value |-> <<"d", "z">>],
       [key |-> <<"DAL">>, value |-> <<"d">>],
       [key |-> <<"DAL_WITH_RING">>, value |-> <<"D">>],
       [key |-> <<"THAL">>, value |-> <<"z">>],
       [key |-> <<"REH">>, value |-> <<"r">>],
       [key |-> <<"REH_WITH_RING">>, value |-> <<"R">>],
       [key |-> <<"ZAIN">>, value |-> <<"z">>],
       [key |-> <<"JEH">>, value |-> <<"j", "z">>],
       [key |-> <<"GE">>, value |-> <<"G">>],
       [key |-> <<"SEEN">>, value |-> <<"s">>],
       [key |-> <<"SHEEN">>, value |-> <<"s", "h">>],
       [key |-> <<"XIN">>, value |-> <<"x">>],
       [key |-> <<"SAD">>, value |-> <<"s">>],
       [key |-> <<"DAD">>, value |-> <<"z">>],
       [key |-> <<"TAH">>, value |-> <<"t">>],
       [key |-> <<"ZAH">>, value |-> <<"z">>],
       [key |-> <<"AIN">>, value |-> <<"'">>],
       [key |-> <<"GHAIN">>, value |-> <<"g", "h">>],
       [key |-> <<"FEH">>, value |-> <<"f">>],
       [key |-> <<"QAF">>, value |-> <<"q">>],
       [key |-> <<"KEHEH">>, value |-> <<"k">>],
       [key |-> <<"KAF_WITH_RING">>, value |-> <<"g">>],
       [key |-> <<"LAM">>, value |-> <<"l">>],
       [key |-> <<"MEEM">>, value |-> <<"m">>],
       [key |-> <<"NOON">>, value |-> <<"n">>],
       [key |-> <<"NOON_WITH_RING">>, value |-> <<"N">>],
       [key |-> <<"WAW">>, value |-> <<"w">>],
       [key |-> <<"HEH">>, value |-> <<"h">>],
       [key |-> <<"FARSI_YEH">>, value |-> <<"y">>],
       [key |-> <<"E">>, value |-> <<"e">>],
       [key |-> <<"YEH_WITH_TAIL">>, value |-> <<"u", "y">>],
       [key |-> <<"YEH_HAMZA">>, value |-> <<"e", "y">>],
       [key |-> <<"WAW", "ALEF">>, value |-> <<"w", "a", "a">>],
       [key |-> <<"WAW", "YEH">>, value |-> <<"w", "e", "e">>],
       [key |-> <<"WAW", "WAW">>, value |-> <<"o", "o">>]
    >>

\* as TransliterateFrom, but the single character is looked up before the
\* two-character pattern
RECURSIVE TransliterateSingleFirst(_, _)
TransliterateSingleFirst(text, i) ==
    IF i > Len(text) THEN <<>>
    ELSE IF HasKey(TRANSLIT_MAP, <<text[i]>>)
         THEN Get(TRANSLIT_MAP, <<text[i]>>).value \o TransliterateSingleFirst(text, i + 1)
    ELSE IF i + 1 <= Len(text) /\ HasKey(TRANSLIT_MAP, SubSeq(text, i, i + 1))
         THEN Get(TRANSLIT_MAP, SubSeq(text, i, i + 1)).value
                  \o TransliterateSingleFirst(text, i + 2)
    ELSE <<text[i]>> \o TransliterateSingleFirst(text, i + 1)

\* the loop of transliterate, from position i on
RECURSIVE TransliterateFrom(_, _)
TransliterateFrom(text, i) ==
    IF i > Len(text) THEN <<>>
    ELSE IF i + 1 <= Len(text) /\ HasKey(TRANSLIT_MAP, SubSeq(text, i, i + 1))
         THEN Get(TRANSLIT_MAP, SubSeq(text, i, i + 1)).value \o TransliterateFrom(text, i + 2)
    ELSE IF HasKey(TRANSLIT_MAP, <<text[i]>>)
         THEN Get(TRANSLIT_MAP, <<text[i]>>).value \o TransliterateFrom(text, i + 1)
    ELSE <<text[i]>> \o TransliterateFrom(text, i + 1)

transliterate(text) == TransliterateFrom(text, 1)

-----------------------------------------------------------------------------
(* Lexicons *)

\* normalize_lexicon applied to one entry: the key and the fields stems,
\* inflected_forms, related_roots and base_root are normalized.  An absent
\* related_roots is the empty list; base_root is a list of at most one root.
NormalizeEntry(value) ==
    [f \in DOMAIN value |->
        IF f = "key" THEN normalize_pashto_char(value[f])
        ELSE IF f = "stems"
            THEN [i \in 1..Len(value[f]) |->
                    [stem_type |-> value[f][i].stem_type,
                     stem_form |-> normalize_pashto_char(value[f][i].stem_form)]]
        ELSE IF f \in {"inflected_forms", "related_roots", "base_root"}
            THEN [i \in 1..Len(value[f]) |-> normalize_pashto_char(value[f][i])]
        ELSE value[f]]

\* a later entry with the same normalized key replaces the earlier one in place
RECURSIVE normalize_lexicon(_)
normalize_lexicon(lexicon) ==
    IF lexicon = <<>> THEN <<>>
    ELSE LET before == normalize_lexicon(SubSeq(lexicon, 1, Len(lexicon) - 1))
             entry  == NormalizeEntry(lexicon[Len(lexicon)])
         IN  IF HasKey(before, entry.key)
             THEN [i \in 1..Len(before) |->
                      IF before[i].key = entry.key THEN entry ELSE before[i]]
             ELSE Append(before, entry)

Stem(stem_type, stem_form) == [stem_type |-> stem_type, stem_form |-> stem_form]

\* the letters of the words below
botlul    == <<"BEH", "WAW", "TEH", "LAM", "LAM">>
rasawul   == <<"REH", "SEEN", "WAW", "LAM">>
pohawul   == <<"PEH", "WAW", "HEH", "WAW", "LAM">>
kawul     == <<"KEHEH", "WAW", "LAM">>
puxtoon   == <<"PEH", "XIN", "TEH", "WAW", "NOON">>
puxtaanu  == <<"PEH", "XIN", "TEH", "ALEF", "NOON", "HEH">>
bodzum    == <<"BEH", "WAW", "DZE", "MEEM">>

\* the literal handed to normalize_lexicon for VERB_LEXICON (v15)
VerbLexiconV15 ==
    << [key |-> botlul, type |-> "Verb", pattern_info |-> "Irregular Verb",
        stems |-> << Stem("imperfective", <<"BEH", "FARSI_YEH", "ALEF", "FARSI_YEH">>),
                     Stem("perfective", <<"BEH", "WAW", "DZE">>),
                     Stem("past_participle", botlul \o <<"FARSI_YEH">>) >>,
        related_roots |-> <<>>, base_root |-> <<>>,
        translit |-> <<"b", "o", "t", "l", "u_acute", "l">>],
       [key |-> rasawul, type |-> "Verb",
        pattern_info |-> "Transitive Verb (to deliver/send)",
        stems |-> << Stem("imperfective", <<"REH", "SEEN", "WAW">>),
                     Stem("perfective", <<"WAW", "REH", "SEEN", "WAW">>),
                     Stem("past_participle", rasawul \o <<"FARSI_YEH">>) >>,
        related_roots |-> <<pohawul>>, base_root |-> <<>>,
        translit |-> <<"r", "a", "s", "a", "w", "u_acute", "l">>],
       [key |-> pohawul, type |-> "Verb",
        pattern_info |-> "Causative Verb (to make understand)",
        stems |-> << Stem("imperfective", <<"PEH", "WAW", "HEH", "WAW">>),
                     Stem("perfective", <<"WAW", "PEH", "WAW", "HEH", "WAW">>),
                     Stem("past_participle", pohawul \o <<"FARSI_YEH">>) >>,
        related_roots |-> <<>>, base_root |-> <<kawul>>,
        translit |-> <<"p", "o", "h", "a", "w", "u_acute", "l">>] >>

\* the literal handed to normalize_lexicon for IRREGULAR_NOUN_ADJ_LEXICON (v15)
IrregularLexiconV15 ==
    << [key |-> puxtoon, type |-> "Noun/Adj", pattern_info |-> "Pattern 4: Pashtoon",
        inflected_forms |-> << puxtaanu,
                               <<"PEH", "XIN", "TEH", "NOON", "WAW">>,
                               <<"PEH", "XIN", "TEH", "NOON", "HEH">>,
                               <<"PEH", "XIN", "TEH", "NOON", "E">> >>,
        translit |-> <<"p", "u", "x", "t", "o", "o", "n">>] >>

\* A second lexicon, written with variant yehs, in which a one-letter stem of
\* one root is a prefix of a stem of another root, which it lists as related.
tlul       == <<"TEH", "LAM", "LAM">>
dzghalawul == <<"DZE", "GHAIN", "LAM", "WAW", "LAM">>
melma      == <<"MEEM", "E", "LAM", "MEEM", "HEH">>
melmaanu   == <<"MEEM", "E", "LAM", "MEEM", "ALEF", "NOON", "HEH">>
dzghalawum == <<"DZE", "GHAIN", "LAM", "WAW", "MEEM">>
dzum       == <<"DZE", "MEEM">>
kor        == <<"KEHEH", "WAW", "REH">>
\* a compound phrase, written in the word index with an underscore
krra_wrra  == <<"KEHEH", "RREH", "HEH", "UNDERSCORE", "WAW", "RREH", "HEH">>

VerbLexiconB ==
    << [key |-> tlul, type |-> "Verb", pattern_info |-> "Class: Simple Verb (to go)",
        stems |-> << Stem("imperfective_present", <<"DZE">>),
                     Stem("perfective_present", <<"WAW", "DZE">>),
                     Stem("past_participle", tlul \o <<"YEH">>) >>,
        related_roots |-> <<dzghalawul>>, base_root |-> <<>>,
        translit |-> <<"t", "l", "u", "l">>],
       [key |-> dzghalawul, type |-> "Verb", pattern_info |-> "Causative Verb (to make run)",
        stems |-> << Stem("imperfective", <<"DZE", "GHAIN", "LAM", "WAW">>),
                     Stem("perfective", <<"WAW", "DZE", "GHAIN", "LAM", "WAW">>),
                     Stem("past_participle", dzghalawul \o <<"ALEF_MAKSURA">>) >>,
        related_roots |-> <<>>, base_root |-> <<kawul>>,
        translit |-> <<"d", "z", "g", "h", "a", "l", "a", "w", "u", "l">>] >>

IrregularLexiconB ==
    << [key |-> melma, type |-> "Noun/Adj",
        pattern_info |-> "Pattern 4 variant: Unusual masculine animate",
        inflected_forms |-> << melmaanu,
                               <<"MEEM", "E", "LAM", "MEEM", "NOON", "WAW">>,
                               <<"MEEM", "E", "LAM", "MEEM", "NOON", "E">> >>,
        translit |-> <<"m", "e", "l", "m", "a">>] >>

\* the raw words a word-index file may hold under each lexicon, in groups of
\* words of one corpus
Lexicons ==
    { [verbs |-> VerbLexiconV15, irregular |-> IrregularLexiconV15,
       words |-> { rasawul, rasawul \o <<"YEH">>, rasawul \o <<"FARSI_YEH">>,
                   rasawul \o <<"ALEF", "NOON">> }],
      [verbs |-> VerbLexiconV15, irregular |-> IrregularLexiconV15,
       words |-> { bodzum, puxtaanu, pohawul, kor }],
      [verbs |-> VerbLexiconB, irregular |-> IrregularLexiconB,
       words |-> { dzghalawum, dzum, kor, kor \o <<"ALEF", "NOON">> }],
      [verbs |-> VerbLexiconB, irregular |-> IrregularLexiconB,
       words |-> { melmaanu, tlul \o <<"ALEF_MAKSURA">>, dzghalawul, dzum }] }

\* the raw words of the corpora the lookups are made in: one with a compound
\* phrase, one with a form of two roots
SearchLexicons ==
    { [verbs |-> VerbLexiconV15, irregular |-> IrregularLexiconV15,
       words |-> { krra_wrra, kor, kor \o <<"ALEF", "NOON">> }],
      [verbs |-> VerbLexiconB, irregular |-> IrregularLexiconB,
       words |-> { dzghalawum, dzum, kor, kor \o <<"ALEF", "NOON">> }] }

\* the count and the references of a record of the word-index file
Payloads ==
    { [count |-> 1, refs |-> <<"John 1:1">>],
      [count |-> 3, refs |-> <<"John 1:1", "John 1:2">>] }

\* the records 'word (count): ref, ref' that match the pattern of load_word_data
Records(words) ==
    {[word |-> w, count |-> p.count, refs |-> p.refs] : w \in words, p \in Payloads}

\* a line the pattern of load_word_data does not match (no count in parentheses)
UnmatchedLines == { [text |-> "word: John 1:1"] }

\* re.match(...) on a line: whether the pattern matches it
Matches(line) == "count" \in DOMAIN line

\* the word-index files: the indexer writes one record per distinct word; a
\* file may hold one line that is not a record, at any place
WordIndexFiles(words) ==
    {file \in SeqsUpTo(Records(words) \cup UnmatchedLines, MaxRecords + 1) :
        /\ Cardinality({i \in 1..Len(file) : Matches(file[i])}) <= MaxRecords
        /\ Cardinality({i \in 1..Len(file) : ~Matches(file[i])}) <= 1
        /\ \A i, j \in 1..Len(file) :
              (Matches(file[i]) /\ Matches(file[j]) /\ file[i].word = file[j].word)
                  => i = j}

-----------------------------------------------------------------------------
(* Word data loading *)

\* no call of a pure function has been made
NoCall == [op |-> "none", arg |-> <<>>]

Init ==
    /\ \E lexicon \in Lexicons :
          /\ VERB_LEXICON = normalize_lexicon(lexicon.verbs)
          /\ IRREGULAR_NOUN_ADJ_LEXICON = normalize_lexicon(lexicon.irregular)
          /\ lines \in WordIndexFiles(lexicon.words)
    /\ VERBS = <<>>
    /\ pc = "load"
    /\ lineno = 1
    /\ word_data = <<>>
    /\ all_words_set = {}
    /\ wordno = 1
    /\ interpretations = <<>>
    /\ final_index = <<>>
    /\ call = NoCall
    /\ result = <<>>
    /\ history = <<>>
    /\ chapter = 1
    /\ current_verse = <<>>
    /\ verse_text = <<>>
    /\ verse_index = <<>>
    /\ freq = <<>>

\* as LoadLine, but the loop is left at the first line the pattern does not match
LoadLineUntilMismatch ==
    /\ pc = "load"
    /\ lineno <= Len(lines)
    /\ LET rec == lines[lineno]
           normalized_word == normalize_pashto_char(rec.word)
       IN  IF ~Matches(rec)
           THEN word_data' = word_data /\ lineno' = Len(lines) + 1
           ELSE /\ lineno' = lineno + 1
                /\ IF HasKey(word_data, normalized_word)
                   THEN word_data' =
                           [i \in 1..Len(word_data) |->
                               IF word_data[i].key = normalized_word
                               THEN [word_data[i] EXCEPT !.count = @ + rec.count,
                                                         !.verses = @ \o rec.refs]
                               ELSE word_data[i]]
                   ELSE \E verses \in ListsOfSet(Range(rec.refs)) :
                           word_data' = Append(word_data,
                               [key |-> normalized_word, count |-> rec.count,
                                verses |-> verses])
    /\ UNCHANGED <<VERBS, VERB_LEXICON, IRREGULAR_NOUN_ADJ_LEXICON, lines, pc, all_words_set,
                   wordno, interpretations, final_index, call, result, history>>
    /\ UNCHANGED chapterVars

\* one iteration of the loop of load_word_data: a line the pattern does not
\* match is passed over; on a matching line a word seen before gets the count
\* added and the references appended, and a new word gets the references as
\* list(set(...)), in whatever order the set iterates
LoadLine ==
    /\ pc = "load"
    /\ lineno <= Len(lines)
    /\ LET rec == lines[lineno]
           normalized_word == normalize_pashto_char(rec.word)
       IN  IF ~Matches(rec)
           THEN word_data' = word_data
           ELSE IF HasKey(word_data, normalized_word)
           THEN word_data' =
                   [i \in 1..Len(word_data) |->
                       IF word_data[i].key = normalized_word
                       THEN [word_data[i] EXCEPT !.count = @ + rec.count,
                                                 !.verses = @ \o rec.refs]
                       ELSE word_data[i]]
           ELSE \E verses \in ListsOfSet(Range(rec.refs)) :
                   word_data' = Append(word_data,
                       [key |-> normalized_word, count |-> rec.count, verses |-> verses])
    /\ lineno' = lineno + 1
    /\ UNCHANGED <<VERBS, VERB_LEXICON, IRREGULAR_NOUN_ADJ_LEXICON, lines, pc, all_words_set,
                   wordno, interpretations, final_index, call, result, history>>
    /\ UNCHANGED chapterVars

\* the end of the file: the vocabulary is the key set of word_data
LoadDone ==
    /\ pc = "load"
    /\ lineno > Len(lines)
    /\ all_words_set' = {word_data[i].key : i \in 1..Len(word_data)}
    /\ pc' = "build"
    /\ UNCHANGED <<VERBS, VERB_LEXICON, IRREGULAR_NOUN_ADJ_LEXICON, lines, lineno, word_data,
                   wordno, interpretations, final_index, call, result, history>>
    /\ UNCHANGED chapterVars

-----------------------------------------------------------------------------
(* Grammar engine (v15) *)

\* a form_description: a fixed label, or an f-string given by its fixed text
\* and the values substituted into it
Desc(label, stem_type, arg) == [label |-> label, stem_type |-> stem_type, arg |-> arg]

Interp(root, type, pattern_info, form_description) ==
    [root |-> root, type |-> type, pattern_info |-> pattern_info,
     form_description |-> form_description]

\* as StemDerivations, but the word is compared with the stem for equality
RECURSIVE StemDerivationsExact(_, _, _, _)
StemDerivationsExact(word, root, details, stems) ==
    IF stems = <<>> THEN <<>>
    ELSE (IF word = Head(stems).stem_form
          THEN << Interp(root, "Verb", details.pattern_info,
                         Desc("Conjugation from stem", Head(stems).stem_type,
                              Head(stems).stem_form)) >>
          ELSE <<>>)
         \o StemDerivationsExact(word, root, details, Tail(stems))

\* B. the loop over details['stems'].items(), in the order of the dict
RECURSIVE StemDerivations(_, _, _, _)
StemDerivations(word, root, details, stems) ==
    IF stems = <<>> THEN <<>>
    ELSE (IF StartsWith(word, Head(stems).stem_form)
          THEN << Interp(root, "Verb", details.pattern_info,
                         Desc("Conjugation from stem", Head(stems).stem_type,
                              Head(stems).stem_form)) >>
          ELSE <<>>)
         \o StemDerivations(word, root, details, Tail(stems))

\* as VerbEntryAnalysis, but a related root is looked for only when the word
\* starts with no stem of the entry
VerbEntryAnalysisRelatedElse(word, details) ==
    (IF word = details.key
     THEN << Interp(details.key, "Verb", details.pattern_info,
                    Desc("Infinitive Root", "", <<>>)) >>
     ELSE <<>>)
    \o StemDerivations(word, details.key, details, details.stems)
    \o (IF /\ StemDerivations(word, details.key, details, details.stems) = <<>>
           /\ word \in Range(details.related_roots)
        THEN << Interp(details.key, "Verb", details.pattern_info,
                       Desc("Related Root", "", word)) >>
        ELSE <<>>)

\* one iteration of the loop over VERB_LEXICON.items()
VerbEntryAnalysis(word, details) ==
    (IF word = details.key
     THEN << Interp(details.key, "Verb", details.pattern_info,
                    Desc("Infinitive Root", "", <<>>)) >>
     ELSE <<>>)
    \o StemDerivations(word, details.key, details, details.stems)
    \o (IF word \in Range(details.related_roots)
        THEN << Interp(details.key, "Verb", details.pattern_info,
                       Desc("Related Root", "", word)) >>
        ELSE <<>>)

\* 1. Verb Analysis
RECURSIVE VerbAnalysis(_, _)
VerbAnalysis(word, lexicon) ==
    IF lexicon = <<>> THEN <<>>
    ELSE VerbEntryAnalysis(word, Head(lexicon)) \o VerbAnalysis(word, Tail(lexicon))

\* as NounAdjAnalysis, but an inflected form is filed under itself instead of
\* under the root of its entry
RECURSIVE NounAdjAnalysisUnderWord(_, _)
NounAdjAnalysisUnderWord(word, lexicon) ==
    IF lexicon = <<>> THEN <<>>
    ELSE LET details == Head(lexicon)
         IN  (IF word = details.key
              THEN << Interp(details.key, "Noun/Adj", details.pattern_info,
                             Desc("Base Form (Masc. Plain)", "", <<>>)) >>
              ELSE IF word \in Range(details.inflected_forms)
              THEN << Interp(word, "Noun/Adj", details.pattern_info,
                             Desc("Inflection of", "", word)) >>
              ELSE <<>>)
             \o NounAdjAnalysisUnderWord(word, Tail(lexicon))

\* 2. Noun/Adj Analysis
RECURSIVE NounAdjAnalysis(_, _)
NounAdjAnalysis(word, lexicon) ==
    IF lexicon = <<>> THEN <<>>
    ELSE LET details == Head(lexicon)
         IN  (IF word = details.key
              THEN << Interp(details.key, "Noun/Adj", details.pattern_info,
                             Desc("Base Form (Masc. Plain)", "", <<>>)) >>
              ELSE IF word \in Range(details.inflected_forms)
              THEN << Interp(details.key, "Noun/Adj", details.pattern_info,
                             Desc("Inflection of", "", details.key)) >>
              ELSE <<>>)
             \o NounAdjAnalysis(word, Tail(lexicon))

plural_endings == << <<"ALEF", "NOON">>, <<"ALEF", "NOON", "WAW">> >>

\* as RegularAnalysis, but without the test that the root is a vocabulary word
RECURSIVE RegularAnalysisAnyRoot(_, _, _)
RegularAnalysisAnyRoot(word, words, endings) ==
    IF endings = <<>> THEN <<>>
    ELSE LET ending == Head(endings)
             possible_root == DropLast(word, Len(ending))
         IN  (IF EndsWith(word, ending)
              THEN << Interp(possible_root, "Noun/Adj", "Regular Noun/Adj",
                             Desc("Inflection of", "", possible_root)) >>
              ELSE <<>>)
             \o RegularAnalysisAnyRoot(word, words, Tail(endings))

\* 3. Regular Noun/Adj Analysis
RECURSIVE RegularAnalysis(_, _, _)
RegularAnalysis(word, words, endings) ==
    IF endings = <<>> THEN <<>>
    ELSE LET ending == Head(endings)
             possible_root == DropLast(word, Len(ending))
         IN  (IF EndsWith(word, ending) /\ possible_root \in words
              THEN << Interp(possible_root, "Noun/Adj", "Regular Noun/Adj",
                             Desc("Inflection of", "", possible_root)) >>
              ELSE <<>>)
             \o RegularAnalysis(word, words, Tail(endings))

\* as Fallback, but without the test that the word is in the vocabulary
FallbackForAnyWord(word, words, found) ==
    IF found = <<>>
    THEN << Interp(word, "Unknown", "N/A", Desc("Base Form", "", <<>>)) >>
    ELSE <<>>

\* 4. Fallback for un-lexiconed words
Fallback(word, words, found) ==
    IF found = <<>> /\ word \in words
    THEN << Interp(word, "Unknown", "N/A", Desc("Base Form", "", <<>>)) >>
    ELSE <<>>

\* as InterpKey, but without the form_description
InterpKeyRootAndType(interp) == <<interp.root, interp.type>>

\* the key of the duplicate removal
InterpKey(interp) == <<interp.root, interp.type, interp.form_description>>

\* Remove duplicates: the first interpretation of each key is kept
RECURSIVE RemoveDuplicates(_)
RemoveDuplicates(interps) ==
    IF interps = <<>> THEN <<>>
    ELSE LET before == RemoveDuplicates(SubSeq(interps, 1, Len(interps) - 1))
             last   == interps[Len(interps)]
         IN  IF InterpKey(last) \in {InterpKey(before[i]) : i \in 1..Len(before)}
             THEN before
             ELSE Append(before, last)

\* as find_all_possible_roots, but the set `seen` of the duplicate removal
\* outlives the call: a key returned by an earlier call is dropped
find_all_possible_roots_shared_seen(word, words) ==
    LET found == VerbAnalysis(word, VERB_LEXICON)
                 \o NounAdjAnalysis(word, IRREGULAR_NOUN_ADJ_LEXICON)
                 \o RegularAnalysis(word, words, plural_endings)
        seen == UNION {{InterpKey(history[n].result[k]) :
                           k \in 1..Len(history[n].result)} : n \in 1..Len(history)}
    IN  SelectSeq(RemoveDuplicates(found \o Fallback(word, words, found)),
                  LAMBDA interp : InterpKey(interp) \notin seen)

find_all_possible_roots(word, words) ==
    LET found == VerbAnalysis(word, VERB_LEXICON)
                 \o NounAdjAnalysis(word, IRREGULAR_NOUN_ADJ_LEXICON)
                 \o RegularAnalysis(word, words, plural_endings)
    IN  RemoveDuplicates(found \o Fallback(word, words, found))

-----------------------------------------------------------------------------
(* Index build loop *)

\* VERB_LEXICON.get(root) or IRREGULAR_NOUN_ADJ_LEXICON.get(root): a list of at
\* most one entry
LexiconEntry(root) ==
    IF HasKey(VERB_LEXICON, root) THEN << Get(VERB_LEXICON, root) >>
    ELSE IF HasKey(IRREGULAR_NOUN_ADJ_LEXICON, root)
    THEN << Get(IRREGULAR_NOUN_ADJ_LEXICON, root) >>
    ELSE <<>>

\* the identity created when the root has none of the type
NewIdentity(root, details) ==
    LET lexicon_entry == LexiconEntry(root)
    IN  [type |-> details.type,
         pattern_info |-> IF lexicon_entry # <<>> THEN lexicon_entry[1].pattern_info
                          ELSE "Regular Noun/Adj",
         translit |-> IF lexicon_entry # <<>> THEN lexicon_entry[1].translit
                      ELSE transliterate(root),
         forms |-> <<>>]

\* the occurrence record appended for a word
Occurrence(word, data) ==
    [form |-> word, count |-> data.count, verses |-> data.verses,
     translit |-> transliterate(word)]

\* as AppendForm, but the bucket is assigned the new item instead of extended
AppendFormOverwriting(forms, form_description, item) ==
    IF HasKey(forms, form_description)
    THEN [i \in 1..Len(forms) |->
            IF forms[i].key = form_description
            THEN [forms[i] EXCEPT !.items = <<item>>]
            ELSE forms[i]]
    ELSE Append(forms, [key |-> form_description, items |-> <<item>>])

\* identity['forms'][form_description].append(item), forms being a defaultdict(list)
AppendForm(forms, form_description, item) ==
    IF HasKey(forms, form_description)
    THEN [i \in 1..Len(forms) |->
            IF forms[i].key = form_description
            THEN [forms[i] EXCEPT !.items = Append(@, item)]
            ELSE forms[i]]
    ELSE Append(forms, [key |-> form_description, items |-> <<item>>])

\* as IdentityOfType, but only the identity added last is looked at
IdentityOfTypeLastOnly(identities, type) ==
    IF identities # <<>> /\ identities[Len(identities)].type = type
    THEN {Len(identities)}
    ELSE {}

\* as IdentityOfType, but the first identity of the root is taken whatever its type
IdentityOfAnyType(identities, type) ==
    IF identities = <<>> THEN {} ELSE {1}

\* the first identity of the type, as next(...) finds it: a set of at most one index
IdentityOfType(identities, type) ==
    LET hits == {i \in 1..Len(identities) : identities[i].type = type}
    IN  IF hits = {} THEN {} ELSE {CHOOSE i \in hits : \A j \in hits : i <= j}

\* the identities of a root after one interpretation of a word is filed
FileUnder(identities, root, details, item) ==
    LET at == IdentityOfType(identities, details.type)
        ids == IF at = {} THEN Append(identities, NewIdentity(root, details))
               ELSE identities
        k == IF at = {} THEN Len(ids) ELSE CHOOSE i \in at : TRUE
    IN  [ids EXCEPT ![k].forms = AppendForm(@, details.form_description, item)]

\* the body of the loop over the interpretations of a word
FileInterpretation(index, root, details, item) ==
    IF HasKey(index, root)
    THEN [i \in 1..Len(index) |->
            IF index[i].key = root
            THEN [index[i] EXCEPT !.identities = FileUnder(@, root, details, item)]
            ELSE index[i]]
    ELSE Append(index, [key |-> root,
                        identities |-> FileUnder(<<>>, root, details, item)])

\* the head of the loop over word_data.items(): the interpretations of the next
\* word, or the one Unknown interpretation when there is none
StartWord ==
    /\ pc = "build"
    /\ interpretations = <<>>
    /\ wordno <= Len(word_data)
    /\ LET word == word_data[wordno].key
           found == find_all_possible_roots(word, all_words_set)
       IN  interpretations' =
               IF found = <<>>
               THEN << Interp(word, "Unknown", "N/A", Desc("Base Form", "", <<>>)) >>
               ELSE found
    /\ UNCHANGED <<VERBS, VERB_LEXICON, IRREGULAR_NOUN_ADJ_LEXICON, lines, pc, lineno, word_data,
                   all_words_set, wordno, final_index, call, result, history>>
    /\ UNCHANGED chapterVars

\* as AddInterpretation, but the verse list of the word is moved into the index:
\* the word's own list is left empty
AddInterpretationMovingVerses ==
    /\ pc = "build"
    /\ interpretations # <<>>
    /\ LET details == Head(interpretations)
           data == word_data[wordno]
       IN  final_index' = FileInterpretation(final_index, details.root, details,
                                             Occurrence(data.key, data))
    /\ word_data' = [word_data EXCEPT ![wordno].verses = <<>>]
    /\ interpretations' = Tail(interpretations)
    /\ wordno' = IF Tail(interpretations) = <<>> THEN wordno + 1 ELSE wordno
    /\ UNCHANGED <<VERBS, VERB_LEXICON, IRREGULAR_NOUN_ADJ_LEXICON, lines, pc, lineno,
                   all_words_set, call, result, history>>
    /\ UNCHANGED chapterVars

\* one iteration of the loop over the interpretations of the current word
AddInterpretation ==
    /\ pc = "build"
    /\ interpretations # <<>>
    /\ LET details == Head(interpretations)
           data == word_data[wordno]
       IN  final_index' = FileInterpretation(final_index, details.root, details,
                                             Occurrence(data.key, data))
    /\ interpretations' = Tail(interpretations)
    /\ wordno' = IF Tail(interpretations) = <<>> THEN wordno + 1 ELSE wordno
    /\ UNCHANGED <<VERBS, VERB_LEXICON, IRREGULAR_NOUN_ADJ_LEXICON, lines, pc, lineno, word_data,
                   all_words_set, call, result, history>>
    /\ UNCHANGED chapterVars

\* the loop is over: the index is dumped
Finish ==
    /\ pc = "build"
    /\ interpretations = <<>>
    /\ wordno > Len(word_data)
    /\ pc' = "done"
    /\ UNCHANGED <<VERBS, VERB_LEXICON, IRREGULAR_NOUN_ADJ_LEXICON, lines, lineno, word_data,
                   all_words_set, wordno, interpretations, final_index, call, result,
                   history>>
    /\ UNCHANGED chapterVars

\* the concatenation of a list of lists
RECURSIVE Flatten(_)
Flatten(lists) == IF lists = <<>> THEN <<>> ELSE Head(lists) \o Flatten(Tail(lists))

\* the (root, item) pairs of an index in the order the nested loops of
\* create_form_to_root_map visit them
ItemsInOrder(grammatical_index) ==
    Flatten([r \in 1..Len(grammatical_index) |->
        Flatten([i \in 1..Len(grammatical_index[r].identities) |->
            Flatten([b \in 1..Len(grammatical_index[r].identities[i].forms) |->
                [k \in 1..Len(grammatical_index[r].identities[i].forms[b].items) |->
                    [root |-> grammatical_index[r].key,
                     item |-> grammatical_index[r].identities[i].forms[b].items[k]]]])])])

\* as AddRoot, but the root is appended without the membership test
AddRootAgain(form_map, normalized_form, root) ==
    IF HasKey(form_map, normalized_form)
    THEN [n \in 1..Len(form_map) |->
            IF form_map[n].key = normalized_form
            THEN [form_map[n] EXCEPT !.value = Append(@, root)]
            ELSE form_map[n]]
    ELSE Append(form_map, [key |-> normalized_form, value |-> <<root>>])

\* if root not in form_map[normalized_form]: form_map[normalized_form].append(root)
AddRoot(form_map, normalized_form, root) ==
    IF HasKey(form_map, normalized_form)
    THEN [n \in 1..Len(form_map) |->
            IF form_map[n].key = normalized_form /\ root \notin Range(form_map[n].value)
            THEN [form_map[n] EXCEPT !.value = Append(@, root)]
            ELSE form_map[n]]
    ELSE Append(form_map, [key |-> normalized_form, value |-> <<root>>])

\* the loops of create_form_to_root_map over the items still to visit
RECURSIVE FillFormMap(_, _)
FillFormMap(form_map, pairs) ==
    IF pairs = <<>> THEN form_map
    ELSE FillFormMap(AddRoot(form_map, normalize_pashto_char(Head(pairs).item.form),
                             Head(pairs).root),
                     Tail(pairs))

create_form_to_root_map(grammatical_index) ==
    FillFormMap(<<>>, ItemsInOrder(grammatical_index))

\* the finished index is loaded and its reverse map is made
CreateFormToRootMap ==
    /\ pc = "done"
    /\ call = NoCall
    /\ call' = [op |-> "create_form_to_root_map", arg |-> <<>>]
    /\ result' = create_form_to_root_map(final_index)
    /\ UNCHANGED <<VERBS, VERB_LEXICON, IRREGULAR_NOUN_ADJ_LEXICON, lines, pc, lineno,
                   word_data, all_words_set, wordno, interpretations, final_index,
                   history>>
    /\ UNCHANGED chapterVars

\* the rows the loops over a root's identities, buckets and items visit, in
\* order; grammatical_index.get(root, {}) has none for a root that is no key
ItemsOfRoot(grammatical_index, root) ==
    IF ~HasKey(grammatical_index, root) THEN <<>>
    ELSE LET root_data == Get(grammatical_index, root)
         IN  Flatten([i \in 1..Len(root_data.identities) |->
                 Flatten([b \in 1..Len(root_data.identities[i].forms) |->
                     [k \in 1..Len(root_data.identities[i].forms[b].items) |->
                         [root |-> root,
                          identity |-> root_data.identities[i],
                          desc |-> root_data.identities[i].forms[b].key,
                          item |-> root_data.identities[i].forms[b].items[k]]]])])

\* the rows of a list of roots, root after root
ItemsOfRoots(grammatical_index, roots) ==
    Flatten([r \in 1..Len(roots) |-> ItemsOfRoot(grammatical_index, roots[r])])

\* form_to_root_map.get(key, [])
RootsOf(form_to_root_map, key) ==
    IF HasKey(form_to_root_map, key) THEN Get(form_to_root_map, key).value ELSE <<>>

\* 'Verb' in pattern_info, ('Noun' in pattern_info) or ('Adj' in pattern_info):
\* the pattern labels are atoms, these are the ones that hold the word
Mentions(pattern_info, part) ==
    CASE part = "Verb" ->
            pattern_info \in {"Irregular Verb", "Class: Simple Verb (to go)",
                              "Causative Verb (to make run)",
                              "Causative Verb (to make understand)",
                              "Transitive Verb (to deliver/send)"}
      [] part \in {"Noun", "Adj"} -> pattern_info = "Regular Noun/Adj"
      [] OTHER -> FALSE

\* the type search_grammatical_forms reports for an identity
InferredType(identity) ==
    IF identity.type \in {"", "N/A"}
    THEN IF Mentions(identity.pattern_info, "Verb") THEN "Verb"
         ELSE IF Mentions(identity.pattern_info, "Noun")
                    \/ Mentions(identity.pattern_info, "Adj") THEN "Noun/Adj"
         ELSE "Unknown"
    ELSE identity.type

search_grammatical_forms(word, form_to_root_map, grammatical_index) ==
    LET search_key == Replace(normalize_pashto_char(word), "SPACE", "UNDERSCORE")
        root_words == RootsOf(form_to_root_map, search_key)
        IsHit(row) == normalize_pashto_char(row.item.form) = search_key
        hits == SelectSeq(ItemsOfRoots(grammatical_index, root_words), IsHit)
    IN  [k \in 1..Len(hits) |->
            [root |-> hits[k].root,
             type |-> InferredType(hits[k].identity),
             pattern |-> hits[k].identity.pattern_info,
             description |-> hits[k].desc,
             form |-> hits[k].item.form,
             translit |-> hits[k].item.translit,
             verses |-> hits[k].item.verses,
             count |-> hits[k].item.count]]

get_form_occurrences(root_word, form_ps, grammatical_index) ==
    LET target == Replace(normalize_pashto_char(form_ps), "SPACE", "UNDERSCORE")
        IsHit(row) == normalize_pashto_char(row.item.form) = target
        hits == SelectSeq(ItemsOfRoot(grammatical_index, root_word), IsHit)
    IN  IF hits # <<>>
        THEN [count |-> hits[1].item.count, verses |-> hits[1].item.verses]
        ELSE [count |-> 0, verses |-> <<>>]

\* the local function matches of get_form_occurrences_any
matches(a, b) ==
    LET a1 == normalize_pashto_char(a)
        b1 == normalize_pashto_char(b)
    IN  \/ a1 = b1
        \/ Replace(a1, "SPACE", "UNDERSCORE") = Replace(b1, "SPACE", "UNDERSCORE")

\* the sum of the counts and the concatenation of the verses of a list of rows
RECURSIVE TotalOf(_)
TotalOf(rows) ==
    IF rows = <<>> THEN [count |-> 0, verses |-> <<>>]
    ELSE LET rest == TotalOf(Tail(rows))
         IN  [count |-> Head(rows).item.count + rest.count,
              verses |-> Head(rows).item.verses \o rest.verses]

\* set(form_to_root_map.get(norm, [])) in get_form_occurrences_any
CandidateRoots(form_ps, form_to_root_map) ==
    Range(RootsOf(form_to_root_map, normalize_pashto_char(form_ps)))

\* get_form_occurrences_any, with the order in which the set candidate_roots
\* is iterated
get_form_occurrences_any(form_ps, candidate_roots, grammatical_index) ==
    LET IsHit(row) == matches(row.item.form, form_ps)
    IN  TotalOf(SelectSeq(ItemsOfRoots(grammatical_index, candidate_roots), IsHit))

\* the local function add of build_form_occurrence_index
add(aggregate, form, count, verses) ==
    LET key == normalize_pashto_char(Replace(form, "UNDERSCORE", "SPACE"))
        old == IF HasKey(aggregate, key) THEN Get(aggregate, key).value
               ELSE [count |-> 0, verses |-> <<>>]
    IN  SetItem(aggregate, key,
                [count |-> old.count + count, verses |-> old.verses \o verses])

\* the loops of build_form_occurrence_index over the items still to visit
RECURSIVE AddAll(_, _)
AddAll(aggregate, pairs) ==
    IF pairs = <<>> THEN aggregate
    ELSE AddAll(add(aggregate, Head(pairs).item.form, Head(pairs).item.count,
                    Head(pairs).item.verses),
                Tail(pairs))

build_form_occurrence_index(grammatical_index) ==
    AddAll(<<>>, ItemsInOrder(grammatical_index))

\* the forms the index is asked for: the indexed words, a compound written
\* with underscores also written with spaces
Queries ==
    UNION { {word_data[k].key, Replace(word_data[k].key, "UNDERSCORE", "SPACE")} :
            k \in 1..Len(word_data) }

\* a search of the user interface for a form, with the reverse map made before
SearchGrammaticalForms ==
    /\ pc = "done"
    /\ call.op = "create_form_to_root_map"
    /\ \E word \in Queries :
          /\ call' = [op |-> "search_grammatical_forms", arg |-> word]
          /\ result' = search_grammatical_forms(word, result, final_index)
    /\ UNCHANGED <<VERBS, VERB_LEXICON, IRREGULAR_NOUN_ADJ_LEXICON, lines, pc, lineno,
                   word_data, all_words_set, wordno, interpretations, final_index,
                   history>>
    /\ UNCHANGED chapterVars

\* a lookup of the occurrences of a form under a root
GetFormOccurrences ==
    /\ pc = "done"
    /\ call.op = "create_form_to_root_map"
    /\ \E r \in 1..Len(final_index) : \E form_ps \in Queries :
          /\ call' = [op |-> "get_form_occurrences",
                      arg |-> <<final_index[r].key, form_ps>>]
          /\ result' = get_form_occurrences(final_index[r].key, form_ps, final_index)
    /\ UNCHANGED <<VERBS, VERB_LEXICON, IRREGULAR_NOUN_ADJ_LEXICON, lines, pc, lineno,
                   word_data, all_words_set, wordno, interpretations, final_index,
                   history>>
    /\ UNCHANGED chapterVars

\* a lookup of the occurrences of a form under all its roots; the candidate
\* roots are a set and are iterated in some order
GetFormOccurrencesAny ==
    /\ pc = "done"
    /\ call.op = "create_form_to_root_map"
    /\ \E form_ps \in Queries :
       \E candidate_roots \in ListsOfSet(CandidateRoots(form_ps, result)) :
          /\ call' = [op |-> "get_form_occurrences_any", arg |-> form_ps]
          /\ result' = get_form_occurrences_any(form_ps, candidate_roots, final_index)
    /\ UNCHANGED <<VERBS, VERB_LEXICON, IRREGULAR_NOUN_ADJ_LEXICON, lines, pc, lineno,
                   word_data, all_words_set, wordno, interpretations, final_index,
                   history>>
    /\ UNCHANGED chapterVars

\* the per-form totals are precomputed from the loaded index
BuildFormOccurrenceIndex ==
    /\ pc = "done"
    /\ call.op = "create_form_to_root_map"
    /\ call' = [op |-> "build_form_occurrence_index", arg |-> <<>>]
    /\ result' = build_form_occurrence_index(final_index)
    /\ UNCHANGED <<VERBS, VERB_LEXICON, IRREGULAR_NOUN_ADJ_LEXICON, lines, pc, lineno,
                   word_data, all_words_set, wordno, interpretations, final_index,
                   history>>
    /\ UNCHANGED chapterVars

Next ==
    LoadLine \/ LoadDone \/ StartWord \/ AddInterpretation \/ Finish
        \/ CreateFormToRootMap

Spec == Init /\ [][Next]_vars

\* the index is built and loaded, then the user interface makes a lookup
InitSearch ==
    /\ \E lexicon \in SearchLexicons :
          /\ VERB_LEXICON = normalize_lexicon(lexicon.verbs)
          /\ IRREGULAR_NOUN_ADJ_LEXICON = normalize_lexicon(lexicon.irregular)
          /\ lines \in WordIndexFiles(lexicon.words)
    /\ VERBS = <<>>
    /\ pc = "load"
    /\ lineno = 1
    /\ word_data = <<>>
    /\ all_words_set = {}
    /\ wordno = 1
    /\ interpretations = <<>>
    /\ final_index = <<>>
    /\ call = NoCall
    /\ result = <<>>
    /\ history = <<>>
    /\ chapter = 1
    /\ current_verse = <<>>
    /\ verse_text = <<>>
    /\ verse_index = <<>>
    /\ freq = <<>>

NextSearch ==
    LoadLine \/ LoadDone \/ StartWord \/ AddInterpretation \/ Finish
        \/ CreateFormToRootMap
        \/ SearchGrammaticalForms \/ GetFormOccurrences \/ GetFormOccurrencesAny
        \/ BuildFormOccurrenceIndex

SpecSearch == InitSearch /\ [][NextSearch]_vars

-----------------------------------------------------------------------------
(* Properties of the index build *)

\* the entries of the index: each occurrence with its root, identity and bucket
IndexEntries(index) ==
    UNION { UNION { UNION {
        { [root |-> index[r].key, identity |-> i,
           type |-> index[r].identities[i].type,
           form_description |-> index[r].identities[i].forms[b].key,
           item |-> index[r].identities[i].forms[b].items[k]] :
             k \in 1..Len(index[r].identities[i].forms[b].items) } :
          b \in 1..Len(index[r].identities[i].forms) } :
        i \in 1..Len(index[r].identities) } :
      r \in 1..Len(index) }

\* the interpretations the build loop files for a word
Filed(word) ==
    LET found == find_all_possible_roots(word, all_words_set)
    IN  IF found = <<>>
        THEN << Interp(word, "Unknown", "N/A", Desc("Base Form", "", <<>>)) >>
        ELSE found

\* the records of the file that normalize to a word
RecordsOf(word) ==
    {i \in 1..Len(lines) :
        Matches(lines[i]) /\ normalize_pashto_char(lines[i].word) = word}

RECURSIVE SumOfCounts(_)
SumOfCounts(recs) ==
    IF recs = {} THEN 0
    ELSE LET i == CHOOSE i \in recs : TRUE
         IN  lines[i].count + SumOfCounts(recs \ {i})

NoDuplicates(list) == \A i, j \in 1..Len(list) : list[i] = list[j] => i = j

\* C1 (coverage): when the build loop has processed the whole word list, every
\* word of the vocabulary is the form of at least one occurrence entry of the index.
C1_Coverage ==
    pc = "done" =>
        \A w \in all_words_set : \E e \in IndexEntries(final_index) : e.item.form = w

\* C1: the index is complete, holds several words, and one of them is filed only
\* under roots other than itself
C1_Witness ==
    /\ pc = "done"
    /\ Cardinality(all_words_set) >= 2
    /\ \E w \in all_words_set : ~HasKey(final_index, w)

\* C3 (homonym handling): when the index is complete, a root that is a key of
\* the verb lexicon and a word of the vocabulary holds an identity of type Verb
\* and an identity of type Noun/Adj.
C3_Homonym ==
    pc = "done" =>
        \A w \in all_words_set :
            HasKey(VERB_LEXICON, w) =>
                /\ HasKey(final_index, w)
                /\ {"Verb", "Noun/Adj"} \subseteq
                      {id.type : id \in Range(Get(final_index, w).identities)}

\* C4 (verse aggregation): every occurrence entry of the complete index has as
\* count the sum of the counts of the records that normalize to its form, and as
\* verse list the union of their references, no reference twice.
C4_VerseAggregation ==
    pc = "done" =>
        \A e \in IndexEntries(final_index) :
            LET recs == RecordsOf(e.item.form)
            IN  /\ e.item.count = SumOfCounts(recs)
                /\ Range(e.item.verses) = UNION {Range(lines[i].refs) : i \in recs}
                /\ NoDuplicates(e.item.verses)

\* C10 (identity merging): at every point of the build each root holds at most
\* one identity per type and each identity at most one bucket per
\* form_description, and every interpretation of a word already processed is
\* filed in the bucket of its form_description inside the identity of its type.
C10_IdentityMerging ==
    /\ \A r \in 1..Len(final_index) :
          LET ids == final_index[r].identities
          IN  /\ \A i, j \in 1..Len(ids) : ids[i].type = ids[j].type => i = j
              /\ \A i \in 1..Len(ids) :
                    \A a, b \in 1..Len(ids[i].forms) :
                        ids[i].forms[a].key = ids[i].forms[b].key => a = b
    /\ \A n \in 1..Len(word_data) :
          n < wordno =>
              \A k \in 1..Len(Filed(word_data[n].key)) :
                  LET interp == Filed(word_data[n].key)[k]
                  IN  \E e \in IndexEntries(final_index) :
                          /\ e.root = interp.root
                          /\ e.type = interp.type
                          /\ e.form_description = interp.form_description
                          /\ e.item.form = word_data[n].key

\* C10: one word has put two buckets into one identity of a root that also holds
\* an identity of another type
C10_Witness ==
    \E e1, e2 \in IndexEntries(final_index) :
        /\ e1.root = e2.root
        /\ e1.identity = e2.identity
        /\ e1.item.form = e2.item.form
        /\ e1.form_description # e2.form_description
        /\ \E e3 \in IndexEntries(final_index) :
              e3.root = e1.root /\ e3.type # e1.type

C18_ReverseLookup ==
    call.op = "create_form_to_root_map" =>
        LET entries == IndexEntries(final_index)
            form_map == result
        IN  /\ \A a, b \in 1..Len(form_map) : form_map[a].key = form_map[b].key => a = b
            /\ {form_map[n].key : n \in 1..Len(form_map)}
                  = {normalize_pashto_char(e.item.form) : e \in entries}
            /\ \A n \in 1..Len(form_map) :
                  /\ Range(form_map[n].value)
                        = {e.root : e \in {x \in entries :
                              normalize_pashto_char(x.item.form) = form_map[n].key}}
                  /\ NoDuplicates(form_map[n].value)

\* C18: the map holds a form filed under two roots and a form filed under one
C18_Witness ==
    /\ call.op = "create_form_to_root_map"
    /\ \E n, m \in 1..Len(result) :
          /\ Len(result[n].value) = 2
          /\ Len(result[m].value) = 1
          /\ \E e1, e2 \in IndexEntries(final_index) :
                /\ e1.item.form = result[n].key /\ e2.item.form = result[n].key
                /\ e1.root # e2.root

\* the references of the corpus in lexicographic order, and the place of one
AllRefs == <<"John 1:1", "John 1:2">>

RefRank(ref) == CHOOSE k \in 1..Len(AllRefs) : AllRefs[k] = ref

\* C19 (sorted, deduplicated verses): the verse list of every occurrence entry
\* of the index holds no reference twice and is in lexicographic order.
C19_SortedDedupVerses ==
    \A e \in IndexEntries(final_index) :
        /\ NoDuplicates(e.item.verses)
        /\ \A i, j \in 1..Len(e.item.verses) :
              i < j => RefRank(e.item.verses[i]) < RefRank(e.item.verses[j])

\* the index after the interpretations of a word are filed, one after the other
RECURSIVE FileAll(_, _, _)
FileAll(index, interps, item) ==
    IF interps = <<>> THEN index
    ELSE FileAll(FileInterpretation(index, Head(interps).root, Head(interps), item),
                 Tail(interps), item)

\* the index the build loop makes when it takes the words in the given order
RECURSIVE BuildInOrder(_, _)
BuildInOrder(index, order) ==
    IF order = <<>> THEN index
    ELSE LET data == word_data[Head(order)]
         IN  BuildInOrder(FileAll(index, Filed(data.key), Occurrence(data.key, data)),
                          Tail(order))

\* the content of an index: its entries without their place in the index
Content(index) ==
    { [root |-> e.root, type |-> e.type,
       pattern_info |-> Get(index, e.root).identities[e.identity].pattern_info,
       form_description |-> e.form_description,
       form |-> e.item.form, count |-> e.item.count] : e \in IndexEntries(index) }

\* C20 (order independence): the content of the complete index, as the set of
\* (root, identity type, identity pattern label, form_description, form, count)
\* entries, is the content of the index built from the same words in any other
\* order, and is the union of the contents of the indexes built from each word
\* alone.
C20_OrderIndependence ==
    pc = "done" =>
        /\ \A order \in ListsOfSet(1..Len(word_data)) :
              Content(BuildInOrder(<<>>, order)) = Content(final_index)
        /\ Content(final_index)
              = UNION {Content(BuildInOrder(<<>>, <<n>>)) : n \in 1..Len(word_data)}

\* C20: two words were filed under one root, in identities of different types
C20_Witness ==
    /\ pc = "done"
    /\ Len(word_data) = 2
    /\ \E e1, e2 \in IndexEntries(final_index) :
          /\ e1.root = e2.root
          /\ e1.item.form # e2.item.form
          /\ e1.type # e2.type

\* C21 (compound/causative filing): when the index is complete, a vocabulary
\* word that is a key of the verb lexicon with a base_root is filed as
\* 'Infinitive Root' under itself and is the form of an entry under its base root.
C21_BaseRootFiling ==
    pc = "done" =>
        \A w \in all_words_set :
            (HasKey(VERB_LEXICON, w) /\ Get(VERB_LEXICON, w).base_root # <<>>) =>
                /\ \E e \in IndexEntries(final_index) :
                      /\ e.root = w /\ e.item.form = w
                      /\ e.form_description = Desc("Infinitive Root", "", <<>>)
                /\ \E e \in IndexEntries(final_index) :
                      /\ e.root = Get(VERB_LEXICON, w).base_root[1]
                      /\ e.item.form = w

\* the verb-lexicon roots that list a word as related
RelatedTo(word) ==
    {v.key : v \in {x \in Range(VERB_LEXICON) : word \in Range(x.related_roots)}}

\* C22 as claimed (related-root filing): when the index is complete, a
\* vocabulary word listed in the related_roots of the entry of root R is the
\* form of an entry under the Verb identity of R with form_description
\* "Related form of 'R'".
C22_RelatedFormOf ==
    pc = "done" =>
        \A w \in all_words_set : \A R \in RelatedTo(w) :
            \E e \in IndexEntries(final_index) :
                /\ e.root = R /\ e.type = "Verb" /\ e.item.form = w
                /\ e.form_description = Desc("Related form of", "", R)

\* C22 as amended: such a word is the form of an entry under the Verb identity
\* of R with form_description "Related Root: '<the word>'", also when the word
\* starts with a stem of R.
C22_RelatedRoot ==
    pc = "done" =>
        \A w \in all_words_set : \A R \in RelatedTo(w) :
            \E e \in IndexEntries(final_index) :
                /\ e.root = R /\ e.type = "Verb" /\ e.item.form = w
                /\ e.form_description = Desc("Related Root", "", w)

\* C22: a word is filed under a root both as derived from a stem of the root
\* and as related to it
C22_Witness ==
    /\ pc = "done"
    /\ \E e1, e2 \in IndexEntries(final_index) :
          /\ e1.root = e2.root /\ e1.item.form = e2.item.form
          /\ e1.root \in RelatedTo(e1.item.form)
          /\ e1.form_description.label = "Related Root"
          /\ e2.form_description.label = "Conjugation from stem"

\* the pattern of the interpretation that created an identity of a root: the
\* one filed first, in the first bucket of the identity
CreatingPattern(root, identity) ==
    LET word == identity.forms[1].items[1].form
        made == {k \in 1..Len(Filed(word)) :
                    /\ Filed(word)[k].root = root
                    /\ Filed(word)[k].type = identity.type
                    /\ Filed(word)[k].form_description = identity.forms[1].key}
    IN  Filed(word)[CHOOSE k \in made : TRUE].pattern_info

\* C26 (identity pattern label): the pattern label of every identity of the
\* index is the pattern_info of the lexicon entry of its root when the root is
\* a key of the verb or of the irregular lexicon, and otherwise the pattern of
\* the interpretation that created the identity.
C26_PatternLabel ==
    \A r \in 1..Len(final_index) :
        \A i \in 1..Len(final_index[r].identities) :
            LET root == final_index[r].key
                identity == final_index[r].identities[i]
            IN  identity.pattern_info =
                    IF LexiconEntry(root) # <<>>
                    THEN LexiconEntry(root)[1].pattern_info
                    ELSE CreatingPattern(root, identity)

\* C14 (no input mutation): no step of the index build changes the word list
\* (the words, their counts and verse lists), the vocabulary set or either
\* lexicon table.
C14_NoInputMutation ==
    [][pc = "build" =>
          /\ word_data' = word_data
          /\ all_words_set' = all_words_set
          /\ VERB_LEXICON' = VERB_LEXICON
          /\ IRREGULAR_NOUN_ADJ_LEXICON' = IRREGULAR_NOUN_ADJ_LEXICON]_vars

\* C14: the build has filed two words, one of them with two verses, and is over
C14_Witness ==
    /\ pc = "done"
    /\ Len(word_data) >= 2
    /\ \E n \in 1..Len(word_data) : Len(word_data[n].verses) >= 2
    /\ \A n \in 1..Len(word_data) :
          \E e \in IndexEntries(final_index) : e.item.form = word_data[n].key

-----------------------------------------------------------------------------
(* Calls of the grammar engine *)

\* the words the engine is asked about: the normalized words of the files and
\* lexicon keys
QueryWords ==
    UNION {{normalize_pashto_char(w) : w \in lexicon.words} : lexicon \in Lexicons}
    \cup {pohawul, puxtoon}

\* the lexicons are loaded and a vocabulary of at most MaxRecords words is given
InitInfer ==
    /\ \E lexicon \in Lexicons :
          /\ VERB_LEXICON = normalize_lexicon(lexicon.verbs)
          /\ IRREGULAR_NOUN_ADJ_LEXICON = normalize_lexicon(lexicon.irregular)
          /\ all_words_set \in
                {V \in SUBSET {normalize_pashto_char(w) : w \in lexicon.words} :
                    Cardinality(V) <= MaxRecords}
    /\ VERBS = <<>>
    /\ lines = <<>>
    /\ pc = "infer"
    /\ lineno = 1
    /\ word_data = <<>>
    /\ wordno = 1
    /\ interpretations = <<>>
    /\ final_index = <<>>
    /\ call = NoCall
    /\ result = <<>>
    /\ history = <<>>
    /\ chapter = 1
    /\ current_verse = <<>>
    /\ verse_text = <<>>
    /\ verse_index = <<>>
    /\ freq = <<>>

\* a call find_all_possible_roots(word, all_words_set)
InferCall ==
    /\ pc = "infer"
    /\ Len(history) < MaxCalls
    /\ \E word \in QueryWords :
          /\ call' = [op |-> "find_all_possible_roots", arg |-> word]
          /\ result' = find_all_possible_roots(word, all_words_set)
          /\ history' = Append(history, [arg |-> word, result |-> result'])
    /\ UNCHANGED <<VERBS, VERB_LEXICON, IRREGULAR_NOUN_ADJ_LEXICON, lines, pc, lineno, word_data,
                   all_words_set, wordno, interpretations, final_index>>
    /\ UNCHANGED chapterVars

NextInfer == InferCall

SpecInfer == InitInfer /\ [][NextInfer]_vars

\* the verb-lexicon stems: root, stem type and stem form
LexiconStems ==
    UNION {{[root |-> VERB_LEXICON[e].key,
             stem_type |-> VERB_LEXICON[e].stems[k].stem_type,
             stem_form |-> VERB_LEXICON[e].stems[k].stem_form] :
               k \in 1..Len(VERB_LEXICON[e].stems)} : e \in 1..Len(VERB_LEXICON)}

\* the positions in the result of the interpretations derived from a stem
DerivedFrom(stem) ==
    {k \in 1..Len(result) :
        /\ result[k].root = stem.root
        /\ result[k].type = "Verb"
        /\ result[k].form_description.label = "Conjugation from stem"
        /\ result[k].form_description.stem_type = stem.stem_type
        /\ result[k].form_description.arg = stem.stem_form}

\* C2 (longest stem match): when a stem S1 is a strict prefix of a stem S2 and
\* the word starts with S2, the result attributes the word to S2's root and
\* stem, and an interpretation from S1, if any, comes after the one from S2.
C2_LongestStemMatch ==
    call.op = "find_all_possible_roots" =>
        \A s1, s2 \in LexiconStems :
            ( /\ StartsWith(s2.stem_form, s1.stem_form)
              /\ Len(s1.stem_form) < Len(s2.stem_form)
              /\ StartsWith(call.arg, s2.stem_form) )
            => /\ DerivedFrom(s2) # {}
               /\ \A a \in DerivedFrom(s1) : \A b \in DerivedFrom(s2) : b < a

\* C23 (all stem matches are retained): the result holds exactly one
\* interpretation for every stem of the verb lexicon the word starts with, under
\* the root of the stem and naming the stem's type and form, and none for a stem
\* the word does not start with.
C23_AllStemMatches ==
    call.op = "find_all_possible_roots" =>
        \A s \in LexiconStems :
            Cardinality(DerivedFrom(s))
                = IF StartsWith(call.arg, s.stem_form) THEN 1 ELSE 0

\* C23: the word of the call starts with two stems of one root, or with stems of
\* two roots, and the result holds an interpretation for each
C23_Witness ==
    /\ call.op = "find_all_possible_roots"
    /\ \E s1, s2 \in LexiconStems :
          /\ s1 # s2
          /\ StartsWith(call.arg, s1.stem_form) /\ StartsWith(call.arg, s2.stem_form)
          /\ DerivedFrom(s1) # {} /\ DerivedFrom(s2) # {}
          /\ DerivedFrom(s1) # DerivedFrom(s2)

\* the positions in the result of the interpretations of the regular suffix rules
FromSuffixRule == {k \in 1..Len(result) : result[k].pattern_info = "Regular Noun/Adj"}

\* C24 (precedence guard on suffix rules): when the result holds an
\* interpretation of a regular suffix rule, it holds no interpretation of a
\* higher-precedence branch (verb root, verb stem, related root, irregular
\* noun/adjective); a word that starts with a verb stem gets none of a suffix rule.
C24_PrecedenceGuard ==
    call.op = "find_all_possible_roots" =>
        /\ FromSuffixRule # {} => FromSuffixRule = 1..Len(result)
        /\ (\E st \in LexiconStems : StartsWith(call.arg, st.stem_form))
              => FromSuffixRule = {}

\* C25 (vocabulary guard on suffix rules): every interpretation of a regular
\* suffix rule has as root the word without one of the plural endings it ends
\* in, and that root is a word of the vocabulary.
C25_VocabularyGuard ==
    call.op = "find_all_possible_roots" =>
        \A k \in FromSuffixRule :
            /\ result[k].root \in all_words_set
            /\ \E ending \in Range(plural_endings) :
                  /\ EndsWith(call.arg, ending)
                  /\ result[k].root = DropLast(call.arg, Len(ending))

\* C25: of two calls for words with a plural ending, the one whose candidate is
\* in the vocabulary got the suffix interpretation and the other did not
C25_Witness ==
    \E i, j \in 1..Len(history) :
        /\ \E ending \in Range(plural_endings) :
              /\ EndsWith(history[i].arg, ending)
              /\ DropLast(history[i].arg, Len(ending)) \in all_words_set
        /\ \E k \in 1..Len(history[i].result) :
              history[i].result[k].pattern_info = "Regular Noun/Adj"
        /\ \E ending \in Range(plural_endings) : EndsWith(history[j].arg, ending)
        /\ \A ending \in Range(plural_endings) :
              EndsWith(history[j].arg, ending)
                  => DropLast(history[j].arg, Len(ending)) \notin all_words_set
        /\ \A k \in 1..Len(history[j].result) :
              history[j].result[k].pattern_info # "Regular Noun/Adj"

HasBotlul ==
    /\ HasKey(VERB_LEXICON, botlul)
    /\ Stem("perfective", <<"BEH", "WAW", "DZE">>) \in Range(Get(VERB_LEXICON, botlul).stems)

\* C8 (stem derivation scenario): with the entry of 'botlul', the word 'bodzum'
\* gets an interpretation with root 'botlul', type Verb and a form_description
\* that names the stem 'bodz'.
C8_StemDerivation ==
    (call.op = "find_all_possible_roots" /\ call.arg = bodzum /\ HasBotlul) =>
        \E k \in 1..Len(result) :
            /\ result[k].root = botlul
            /\ result[k].type = "Verb"
            /\ result[k].form_description.arg = <<"BEH", "WAW", "DZE">>

\* C8: the engine was asked about 'bodzum' under the lexicon with 'botlul'
C8_Witness ==
    call.op = "find_all_possible_roots" /\ call.arg = bodzum /\ HasBotlul

\* the irregular lexicon holds 'puxtoon' with the inflected form 'puxtaanu'
HasPuxtoon ==
    /\ HasKey(IRREGULAR_NOUN_ADJ_LEXICON, puxtoon)
    /\ puxtaanu \in Range(Get(IRREGULAR_NOUN_ADJ_LEXICON, puxtoon).inflected_forms)

NoMatch(word) ==
    /\ \A v \in Range(VERB_LEXICON) :
          /\ word # v.key
          /\ \A stem \in Range(v.stems) : ~StartsWith(word, stem.stem_form)
          /\ word \notin Range(v.related_roots)
    /\ \A n \in Range(IRREGULAR_NOUN_ADJ_LEXICON) :
          word # n.key /\ word \notin Range(n.inflected_forms)
    /\ \A ending \in Range(plural_endings) :
          ~(EndsWith(word, ending) /\ DropLast(word, Len(ending)) \in all_words_set)

\* C15 (absence of data is a value): for a word that matches no branch, the
\* engine returns the empty list when the word is not in the vocabulary and
\* exactly one interpretation, with the word as root, pattern 'N/A' and
\* form_description 'Base Form', when it is.
C15_AbsenceIsValue ==
    \A n \in 1..Len(history) :
        LET word == history[n].arg
            res == history[n].result
        IN  NoMatch(word) =>
                IF word \in all_words_set
                THEN /\ Len(res) = 1
                     /\ res[1].root = word
                     /\ res[1].pattern_info = "N/A"
                     /\ res[1].form_description = Desc("Base Form", "", <<>>)
                ELSE res = <<>>

\* C15: of two words that match nothing, the one in the vocabulary got the
\* fallback interpretation and the one outside it the empty list
C15_Witness ==
    \E i, j \in 1..Len(history) :
        /\ NoMatch(history[i].arg) /\ NoMatch(history[j].arg)
        /\ history[i].arg \in all_words_set
        /\ history[j].arg \notin all_words_set
        /\ Len(history[i].result) = 1
        /\ history[j].result = <<>>

-----------------------------------------------------------------------------
(* Calls of the normalizer *)

\* the letters of the strings handed to the normalizer: the three variants, the
\* canonical yeh and two letters without a mapping
Letters == {"YEH", "ALEF_MAKSURA", "YEH_HAMZA", "FARSI_YEH", "WAW", "E"}

InitNormalize ==
    /\ VERBS = <<>>
    /\ VERB_LEXICON = <<>>
    /\ IRREGULAR_NOUN_ADJ_LEXICON = <<>>
    /\ lines = <<>>
    /\ pc = "normalize"
    /\ lineno = 1
    /\ word_data = <<>>
    /\ all_words_set = {}
    /\ wordno = 1
    /\ interpretations = <<>>
    /\ final_index = <<>>
    /\ call = NoCall
    /\ result = <<>>
    /\ history = <<>>
    /\ chapter = 1
    /\ current_verse = <<>>
    /\ verse_text = <<>>
    /\ verse_index = <<>>
    /\ freq = <<>>

\* a call normalize_pashto_char(text)
NormalizeCall ==
    /\ pc = "normalize"
    /\ \E text \in SeqsUpTo(Letters, MaxLen) :
          /\ call' = [op |-> "normalize_pashto_char", arg |-> text]
          /\ result' = normalize_pashto_char(text)
          /\ history' = Append(history, [arg |-> text, result |-> result'])
    /\ pc' = "normalized"
    /\ UNCHANGED <<VERBS, VERB_LEXICON, IRREGULAR_NOUN_ADJ_LEXICON, lines, lineno,
                   word_data, all_words_set, wordno, interpretations, final_index>>
    /\ UNCHANGED chapterVars

\* the result of the call is normalized again
NormalizeAgain ==
    /\ pc = "normalized"
    /\ call' = [op |-> "normalize_pashto_char", arg |-> result]
    /\ result' = normalize_pashto_char(result)
    /\ history' = Append(history, [arg |-> result, result |-> result'])
    /\ pc' = "renormalized"
    /\ UNCHANGED <<VERBS, VERB_LEXICON, IRREGULAR_NOUN_ADJ_LEXICON, lines, lineno,
                   word_data, all_words_set, wordno, interpretations, final_index>>
    /\ UNCHANGED chapterVars

NextNormalize == NormalizeCall \/ NormalizeAgain

SpecNormalize == InitNormalize /\ [][NextNormalize]_vars

\* C5 (normalize is idempotent): normalizing the result of a call returns it
\* unchanged; the result of a call holds no mapped variant, is as long as the
\* text, and has every unmapped letter of the text at its position.
C5_NormalizeIdempotent ==
    /\ pc = "renormalized" => history[2].result = history[1].result
    /\ \A n \in 1..Len(history) :
          LET text == history[n].arg
              out == history[n].result
          IN  /\ Range(out) \cap {"YEH", "ALEF_MAKSURA", "YEH_HAMZA"} = {}
              /\ Len(out) = Len(text)
              /\ \A i \in 1..Len(text) :
                    text[i] \notin {"YEH", "ALEF_MAKSURA", "YEH_HAMZA"} => out[i] = text[i]

\* C5: a text with a mapped variant and an unmapped letter was normalized twice
C5_Witness ==
    /\ pc = "renormalized"
    /\ "YEH_HAMZA" \in Range(history[1].arg)
    /\ "WAW" \in Range(history[1].arg)
    /\ history[1].result # history[1].arg

-----------------------------------------------------------------------------
(* Calls of the transliteration *)

\* the letters of the texts handed to transliterate: the letters of the
\* two-character patterns, a mapped letter of none of them, and the Arabic yeh
\* and the zero-width non-joiner, which have no mapping of their own
TranslitLetters == {"WAW", "ALEF", "YEH", "FARSI_YEH", "ZWNJ"}

InitTransliterate ==
    /\ VERBS = <<>>
    /\ VERB_LEXICON = <<>>
    /\ IRREGULAR_NOUN_ADJ_LEXICON = <<>>
    /\ lines = <<>>
    /\ pc = "transliterate"
    /\ lineno = 1
    /\ word_data = <<>>
    /\ all_words_set = {}
    /\ wordno = 1
    /\ interpretations = <<>>
    /\ final_index = <<>>
    /\ call = NoCall
    /\ result = <<>>
    /\ history = <<>>
    /\ chapter = 1
    /\ current_verse = <<>>
    /\ verse_text = <<>>
    /\ verse_index = <<>>
    /\ freq = <<>>

\* a call transliterate(text)
TransliterateCall ==
    /\ pc = "transliterate"
    /\ \E text \in SeqsUpTo(TranslitLetters, MaxLen) :
          /\ call' = [op |-> "transliterate", arg |-> text]
          /\ result' = transliterate(text)
    /\ pc' = "transliterated"
    /\ UNCHANGED <<VERBS, VERB_LEXICON, IRREGULAR_NOUN_ADJ_LEXICON, lines, lineno,
                   word_data, all_words_set, wordno, interpretations, final_index,
                   history>>
    /\ UNCHANGED chapterVars

NextTransliterate == TransliterateCall

SpecTransliterate == InitTransliterate /\ [][NextTransliterate]_vars

\* the sum of the first k lengths of a segmentation
RECURSIVE SumOfLengths(_, _)
SumOfLengths(seg, k) == IF k = 0 THEN 0 ELSE seg[k] + SumOfLengths(seg, k - 1)

\* the output for one segment: the mapped value, or the character itself
SegmentOutput(segment) ==
    IF HasKey(TRANSLIT_MAP, segment) THEN Get(TRANSLIT_MAP, segment).value ELSE segment

\* the output for the first k segments of a segmentation of the text
RECURSIVE OutputOf(_, _, _)
OutputOf(text, seg, k) ==
    IF k = 0 THEN <<>>
    ELSE OutputOf(text, seg, k - 1)
         \o SegmentOutput(SubSeq(text, SumOfLengths(seg, k - 1) + 1, SumOfLengths(seg, k)))

\* C17 (greedy longest match): the text splits, left to right and without gap
\* or overlap, into segments of one or two characters, a segment having two
\* characters exactly when the two characters at its start are a mapped
\* sequence; the result is the concatenation, in order, of the mapped value of
\* each mapped segment and of the unmapped characters themselves.
C17_GreedyLongestMatch ==
    call.op = "transliterate" =>
        \E seg \in SeqsUpTo({1, 2}, Len(call.arg)) :
            /\ SumOfLengths(seg, Len(seg)) = Len(call.arg)
            /\ \A k \in 1..Len(seg) :
                  LET start == SumOfLengths(seg, k - 1) + 1
                  IN  seg[k] = 2 <=>
                          /\ start + 1 <= Len(call.arg)
                          /\ SubSeq(call.arg, start, start + 1)
                                \in { <<"WAW", "ALEF">>, <<"WAW", "YEH">>, <<"WAW", "WAW">> }
            /\ result = OutputOf(call.arg, seg, Len(seg))

\* C17: in 'yeh waw yeh' the unmapped Arabic yeh is copied and 'waw yeh' is taken
\* as the two-character sequence, not as 'w' and an unmapped yeh
C17_Witness ==
    /\ call.op = "transliterate"
    /\ call.arg = <<"YEH", "WAW", "YEH">>
    /\ result = <<"YEH", "w", "e", "e">>

-----------------------------------------------------------------------------
(* Verb conjugation generator *)

\* Present/subjunctive endings, in the order of the dict
PRESENT_ENDINGS ==
    << [key |-> "1sg", ps |-> <<"MEEM">>,      rom |-> <<"u", "m">>],
       [key |-> "1pl", ps |-> <<"WAW">>,       rom |-> <<"o", "o">>],
       [key |-> "2sg", ps |-> <<"E">>,         rom |-> <<"e">>],
       [key |-> "2pl", ps |-> <<"YEH_HAMZA">>, rom |-> <<"e", "y">>],
       [key |-> "3sg", ps |-> <<"YEH">>,       rom |-> <<"e", "e">>],
       [key |-> "3pl", ps |-> <<"YEH">>,       rom |-> <<"e", "e">>] >>

\* Past endings, in the order of the dict
PAST_ENDINGS ==
    << [key |-> "1sg",   ps |-> <<"MEEM">>,      rom |-> <<"u", "m">>],
       [key |-> "1pl",   ps |-> <<"WAW">>,       rom |-> <<"o", "o">>],
       [key |-> "2sg",   ps |-> <<"E">>,         rom |-> <<"e">>],
       [key |-> "2pl",   ps |-> <<"YEH_HAMZA">>, rom |-> <<"e", "y">>],
       [key |-> "3sg_m", ps |-> <<"WAW">>,       rom |-> <<"o">>],
       [key |-> "3sg_f", ps |-> <<"HEH">>,       rom |-> <<"a">>],
       [key |-> "3pl",   ps |-> <<>>,            rom |-> <<>>] >>

\* build_present and build_past: the base followed by each ending of the table
Build(stem_ps, stem_rom, endings) ==
    [k \in 1..Len(endings) |->
        [key |-> endings[k].key,
         ps  |-> stem_ps \o endings[k].ps,
         rom |-> stem_rom \o endings[k].rom]]

build_present(stem_ps, stem_rom) == Build(stem_ps, stem_rom, PRESENT_ENDINGS)

\* as build_past, but without the slot 3sg_f
build_past_one_3sg(stem_ps, stem_rom) ==
    Build(stem_ps, stem_rom, SubSeq(PAST_ENDINGS, 1, 5) \o SubSeq(PAST_ENDINGS, 7, 7))

build_past(stem_ps, stem_rom) == Build(stem_ps, stem_rom, PAST_ENDINGS)

present_of(v) == build_present(v.stems.imperfective, v.romanization.imperfective_stem)

subjunctive_of(v) == build_present(v.stems.perfective, v.romanization.perfective_stem)

\* as cont_past_of, but built on the imperfective stem
cont_past_on_stem(v) ==
    build_past(v.stems.imperfective, v.romanization.imperfective_stem)

\* Continuous past uses imperfective root + past endings
cont_past_of(v) == build_past(v.roots.imperfective, v.romanization.imperfective_root)

\* Simple past uses perfective root + past endings
simple_past_of(v) == build_past(v.roots.perfective, v.romanization.perfective_root)

\* the loop over the slots of the paradigms, filling forms_map
RECURSIVE AddForms(_, _)
AddForms(forms_map, slots) ==
    IF slots = <<>> THEN forms_map
    ELSE AddForms(SetItem(forms_map, Head(slots).ps, Head(slots).rom), Tail(slots))

\* the fields of a lexicon entry conjugate_verb reads with v[...], in the order
\* it reads them
RequiredFields == <<"stems", "roots", "past_participle", "romanization">>

\* VERBS.get(root): a list of at most one entry
VerbsGet(root) == IF HasKey(VERBS, root) THEN << Get(VERBS, root) >> ELSE <<>>

\* 'not v': the root is no key of VERBS, or its entry is the empty dict
NotV(root) == VerbsGet(root) = <<>> \/ DOMAIN VerbsGet(root)[1] = {"key"}

\* the KeyErrors conjugate_verb raises: the first required field the entry has
\* not, a list of at most one field
KeyErrors(root) ==
    IF NotV(root) THEN <<>>
    ELSE LET v == VerbsGet(root)[1]
             missing == {k \in 1..Len(RequiredFields) : RequiredFields[k] \notin DOMAIN v}
         IN  IF missing = {} THEN <<>>
             ELSE << RequiredFields[CHOOSE k \in missing : \A j \in missing : k <= j] >>

\* conjugate_verb when it returns: the empty list for the empty dict, else a
\* list of one table
conjugate_verb(root) ==
    IF NotV(root) THEN <<>>
    ELSE LET v == Get(VERBS, root)
             present == present_of(v)
             subjunctive == subjunctive_of(v)
             cont_past == cont_past_of(v)
             simple_past == simple_past_of(v)
             named == SetItem(SetItem(SetItem(<<>>,
                          v.roots.imperfective, v.romanization.imperfective_root),
                          v.roots.perfective, v.romanization.perfective_root),
                          v.past_participle, v.romanization.past_participle)
         IN  << [meta |-> [root |-> root, type |-> "Verb",
                           imperfective_stem |-> v.stems.imperfective,
                           perfective_stem |-> v.stems.perfective,
                           imperfective_root |-> v.roots.imperfective,
                           perfective_root |-> v.roots.perfective,
                           past_participle |-> v.past_participle,
                           romanization |-> v.romanization],
                 present |-> present,
                 subjunctive |-> subjunctive,
                 continuous_past |-> cont_past,
                 simple_past |-> simple_past,
                 forms_map |-> AddForms(named,
                                  present \o subjunctive \o cont_past \o simple_past)] >>

\* the bases the entries of verbs_lexicon.json are made of: 'ween', 'leed', 'leedul'
Bases ==
    { [ps |-> <<"WAW", "FARSI_YEH", "NOON">>, rom |-> <<"w", "e", "e", "n">>],
      [ps |-> <<"LAM", "FARSI_YEH", "DAL">>, rom |-> <<"l", "e", "e", "d">>],
      [ps |-> <<"LAM", "FARSI_YEH", "DAL", "LAM">>,
       rom |-> <<"l", "e", "e", "d", "u", "l">>] }

\* an entry of verbs_lexicon.json: the perfective forms carry the prefix 'w'
VerbEntry(key, stem, root) ==
    [key |-> key,
     stems |-> [imperfective |-> stem.ps, perfective |-> <<"WAW">> \o stem.ps],
     roots |-> [imperfective |-> root.ps, perfective |-> <<"WAW">> \o root.ps],
     past_participle |-> root.ps \o <<"FARSI_YEH">>,
     romanization |-> [imperfective_stem |-> stem.rom,
                       perfective_stem |-> <<"w", "u">> \o stem.rom,
                       imperfective_root |-> root.rom,
                       perfective_root |-> <<"w", "u">> \o root.rom,
                       past_participle |-> root.rom \o <<"e", "y">>]]

leedul == <<"LAM", "FARSI_YEH", "DAL", "LAM">>

\* an entry without some of its fields
Without(entry, fields) == [f \in DOMAIN entry \ fields |-> entry[f]]

\* the fields an entry of verbs_lexicon.json may come without: none, one of the
\* required ones, or all of them (the empty dict)
LackingFields ==
    { {}, {"stems"}, {"roots"}, {"past_participle"}, {"romanization"},
      {"roots", "romanization"}, Range(RequiredFields) }

\* the roots conjugate_verb is asked for; 'botlul' is in no lexicon
ConjugationRoots == {leedul, kawul, botlul}

\* verbs_lexicon.json is loaded: an entry for 'leedul' and one for 'kawul', the
\* latter possibly incomplete
InitConjugate ==
    /\ \E s1, r1, s2, r2 \in Bases : \E lacking \in LackingFields :
          VERBS = << VerbEntry(leedul, s1, r1),
                     Without(VerbEntry(kawul, s2, r2), lacking) >>
    /\ VERB_LEXICON = <<>>
    /\ IRREGULAR_NOUN_ADJ_LEXICON = <<>>
    /\ lines = <<>>
    /\ pc = "conjugate"
    /\ lineno = 1
    /\ word_data = <<>>
    /\ all_words_set = {}
    /\ wordno = 1
    /\ interpretations = <<>>
    /\ final_index = <<>>
    /\ call = NoCall
    /\ result = <<>>
    /\ history = <<>>
    /\ chapter = 1
    /\ current_verse = <<>>
    /\ verse_text = <<>>
    /\ verse_index = <<>>
    /\ freq = <<>>

\* a call conjugate_verb(root): it returns its result, or a KeyError leaves it
\* and ends the program
ConjugateCall ==
    /\ pc = "conjugate"
    /\ \E root \in ConjugationRoots :
          /\ call' = [op |-> "conjugate_verb", arg |-> root]
          /\ IF KeyErrors(root) # <<>>
             THEN pc' = "KeyError" /\ result' = <<>>
             ELSE pc' = pc /\ result' = conjugate_verb(root)
    /\ UNCHANGED <<VERBS, VERB_LEXICON, IRREGULAR_NOUN_ADJ_LEXICON, lines, lineno,
                   word_data, all_words_set, wordno, interpretations, final_index,
                   history>>
    /\ UNCHANGED chapterVars

NextConjugate == ConjugateCall

SpecConjugate == InitConjugate /\ [][NextConjugate]_vars

\* the surface form of a slot of a paradigm
FormOf(paradigm, slot) == Get(paradigm, slot).ps

\* the last call of conjugate_verb returned a table
Conjugated == call.op = "conjugate_verb" /\ pc = "conjugate" /\ result # <<>>

\* C7 (stem-vs-root distinction): each present form is the imperfective stem
\* followed by the present ending of its slot, each subjunctive form the
\* perfective stem followed by it, each continuous-past form the imperfective
\* root followed by the past ending of its slot and each simple-past form the
\* perfective root followed by it; when stem and root differ, no past form is
\* the stem followed by its slot's ending and no present or subjunctive form is
\* the root followed by its slot's ending.
C7_StemVsRoot ==
    (call.op = "conjugate_verb" /\ pc = "conjugate" /\ ~NotV(call.arg)) =>
        /\ result # <<>>
        /\ LET v == Get(VERBS, call.arg)
               t == result[1]
           IN  /\ Len(t.present) = Len(PRESENT_ENDINGS)
               /\ Len(t.subjunctive) = Len(PRESENT_ENDINGS)
               /\ Len(t.continuous_past) = Len(PAST_ENDINGS)
               /\ Len(t.simple_past) = Len(PAST_ENDINGS)
               /\ \A k \in 1..Len(PRESENT_ENDINGS) :
                     LET e == PRESENT_ENDINGS[k]
                     IN  /\ FormOf(t.present, e.key) = v.stems.imperfective \o e.ps
                         /\ FormOf(t.subjunctive, e.key) = v.stems.perfective \o e.ps
                         /\ v.stems.imperfective # v.roots.imperfective =>
                               FormOf(t.present, e.key) # v.roots.imperfective \o e.ps
                         /\ v.stems.perfective # v.roots.perfective =>
                               FormOf(t.subjunctive, e.key) # v.roots.perfective \o e.ps
               /\ \A k \in 1..Len(PAST_ENDINGS) :
                     LET e == PAST_ENDINGS[k]
                     IN  /\ FormOf(t.continuous_past, e.key) = v.roots.imperfective \o e.ps
                         /\ FormOf(t.simple_past, e.key) = v.roots.perfective \o e.ps
                         /\ v.stems.imperfective # v.roots.imperfective =>
                               FormOf(t.continuous_past, e.key)
                                   # v.stems.imperfective \o e.ps
                         /\ v.stems.perfective # v.roots.perfective =>
                               FormOf(t.simple_past, e.key) # v.stems.perfective \o e.ps

\* C7: a verb whose stem is not its root was conjugated
C7_Witness ==
    /\ call.op = "conjugate_verb"
    /\ result # <<>>
    /\ result[1].meta.imperfective_stem # result[1].meta.imperfective_root
    /\ result[1].meta.perfective_stem # result[1].meta.perfective_root

\* the entry of a root of the lexicon lacks a required field
LacksRequired(root) ==
    /\ HasKey(VERBS, root)
    /\ \E f \in Range(RequiredFields) : f \notin DOMAIN Get(VERBS, root)

\* C11 (absent value): a call of conjugate_verb for a root that is no key of
\* the verb lexicon, or whose entry lacks a required field, raises no exception
\* and returns the empty result.
C11_AbsentValue ==
    (call.op = "conjugate_verb" /\ (~HasKey(VERBS, call.arg) \/ LacksRequired(call.arg)))
        => (pc = "conjugate" /\ result = <<>>)

\* the names of the paradigms of a table
Paradigms(t) == DOMAIN t \ {"meta", "forms_map"}

\* the slot names of a paradigm, and whether no slot name occurs twice
Slots(paradigm) == {paradigm[k].key : k \in 1..Len(paradigm)}

DistinctSlots(paradigm) ==
    \A i, j \in 1..Len(paradigm) : paradigm[i].key = paradigm[j].key => i = j

AllSlots(t) == t.present \o t.subjunctive \o t.continuous_past \o t.simple_past

\* C13 (forms_map completeness): the keys of the forms_map of a returned table
\* are the surface forms of all slots of the four paradigms and the imperfective
\* root, the perfective root and the past participle; each slot's surface form
\* is mapped to that slot's romanized form and each named root to its lexicon
\* romanization.
C13_FormsMap ==
    Conjugated =>
        LET t == result[1]
            v == Get(VERBS, call.arg)
            named == { [ps |-> v.roots.imperfective, rom |-> v.romanization.imperfective_root],
                       [ps |-> v.roots.perfective, rom |-> v.romanization.perfective_root],
                       [ps |-> v.past_participle, rom |-> v.romanization.past_participle] }
        IN  /\ {t.forms_map[k].key : k \in 1..Len(t.forms_map)}
                  = {slot.ps : slot \in Range(AllSlots(t))} \cup {n.ps : n \in named}
            /\ \A slot \in Range(AllSlots(t)) : Get(t.forms_map, slot.ps).value = slot.rom
            /\ \A n \in named : Get(t.forms_map, n.ps).value = n.rom

\* C27 (normalized lookup of generated forms): for every surface form of every
\* slot of a returned table, the normalized form is a key of the forms_map and
\* is mapped to the romanized form of the slot.
C27_NormalizedLookup ==
    Conjugated =>
        \A slot \in Range(AllSlots(result[1])) :
            /\ HasKey(result[1].forms_map, normalize_pashto_char(slot.ps))
            /\ Get(result[1].forms_map, normalize_pashto_char(slot.ps)).value = slot.rom

-----------------------------------------------------------------------------
(* The corpus indexer (index_script.py): the verse loop over a chapter file *)
(* A character of a chapter file is written by its name: "DIGIT_ONE" is    *)
(* U+06F1, "SPACE" stands for any whitespace character.                    *)

\* the number of lines of a chapter file
MaxLines == 3

persian_digits ==
    [DIGIT_ZERO |-> 0, DIGIT_ONE |-> 1, DIGIT_TWO |-> 2, DIGIT_THREE |-> 3,
     DIGIT_FOUR |-> 4, DIGIT_FIVE |-> 5, DIGIT_SIX |-> 6, DIGIT_SEVEN |-> 7,
     DIGIT_EIGHT |-> 8, DIGIT_NINE |-> 9]

\* the loop of persian_to_int from character i on: None is <<>>, a number n is <<n>>
RECURSIVE PersianToIntFrom(_, _, _)
PersianToIntFrom(s, i, acc) ==
    IF i > Len(s) THEN <<acc>>
    ELSE IF s[i] \in DOMAIN persian_digits
         THEN PersianToIntFrom(s, i + 1, acc * 10 + persian_digits[s[i]])
    ELSE <<>>

persian_to_int(s) == PersianToIntFrom(s, 1, 0)

punct ==
    {"FULL_STOP", "COMMA", "COLON", "SEMICOLON", "EXCLAMATION_MARK", "QUESTION_MARK",
     "ARABIC_QUESTION_MARK", "ARABIC_COMMA", "ARABIC_SEMICOLON", "QUOTATION_MARK",
     "APOSTROPHE", "LEFT_PARENTHESIS", "RIGHT_PARENTHESIS", "LEFT_SQUARE_BRACKET",
     "RIGHT_SQUARE_BRACKET", "LEFT_CURLY_BRACKET", "RIGHT_CURLY_BRACKET",
     "LEFT_DOUBLE_QUOTATION_MARK", "RIGHT_DOUBLE_QUOTATION_MARK"}

\* str.strip(chars): the characters of chars are removed at both ends
RECURSIVE StripLeft(_, _)
StripLeft(s, chars) ==
    IF s # <<>> /\ Head(s) \in chars THEN StripLeft(Tail(s), chars) ELSE s

RECURSIVE StripRight(_, _)
StripRight(s, chars) ==
    IF s # <<>> /\ s[Len(s)] \in chars THEN StripRight(DropLast(s, 1), chars) ELSE s

Strip(s, chars) == StripRight(StripLeft(s, chars), chars)

\* ' '.join(list)
RECURSIVE Join(_)
Join(list) ==
    IF list = <<>> THEN <<>>
    ELSE IF Len(list) = 1 THEN list[1]
    ELSE list[1] \o <<"SPACE">> \o Join(Tail(list))

\* re.split(r'\s+', s): s is cut at every run of whitespace
RECURSIVE SplitFrom(_, _, _)
SplitFrom(s, i, piece) ==
    IF i > Len(s) THEN <<piece>>
    ELSE IF s[i] = "SPACE"
         THEN IF i > 1 /\ s[i - 1] = "SPACE"
              THEN SplitFrom(s, i + 1, piece)
              ELSE <<piece>> \o SplitFrom(s, i + 1, <<>>)
    ELSE SplitFrom(s, i + 1, Append(piece, s[i]))

Split(s) == SplitFrom(s, 1, <<>>)

book == "John"

\* f"{book} {chapter}:{current_verse}"
Ref(chapter_no, verse_no) == [book |-> book, chapter |-> chapter_no, verse |-> verse_no]

\* the loop over the words of a verse: index[clean_word].append(ref) and
\* freq[clean_word] += 1 for every word that is more than punctuation
RECURSIVE IndexWords(_, _, _)
IndexWords(state, pieces, ref) ==
    IF pieces = <<>> THEN state
    ELSE LET clean_word == Strip(Head(pieces), punct)
             refs == IF HasKey(state.index, clean_word)
                     THEN Get(state.index, clean_word).value ELSE <<>>
             n == IF HasKey(state.freq, clean_word)
                  THEN Get(state.freq, clean_word).value ELSE 0
         IN  IF clean_word # <<>>
             THEN IndexWords([index |-> SetItem(state.index, clean_word, Append(refs, ref)),
                              freq |-> SetItem(state.freq, clean_word, n + 1)],
                             Tail(pieces), ref)
             ELSE IndexWords(state, Tail(pieces), ref)

\* the words of the collected verse are filed under its reference
IndexedVerse ==
    IndexWords([index |-> verse_index, freq |-> freq],
               Split(Strip(Join(verse_text), {"SPACE"})),
               Ref(chapter, current_verse[1]))

\* the lines a chapter file is made of: verse numbers, text with and without
\* punctuation and repeated whitespace, a blank line, a line of whitespace, a
\* line of punctuation, a number followed by punctuation
ChapterLines ==
    { <<"DIGIT_ONE">>, <<"DIGIT_TWO", "SPACE">>, <<"DIGIT_ONE", "DIGIT_TWO">>,
      <<>>, <<"SPACE">>, <<"FULL_STOP">>, <<"DIGIT_ONE", "FULL_STOP">>,
      kor,
      <<"SPACE">> \o kor \o <<"ARABIC_COMMA", "SPACE", "SPACE", "QUOTATION_MARK">>
          \o kawul \o <<"FULL_STOP">> }

InitChapter ==
    /\ lines \in SeqsUpTo(ChapterLines, MaxLines)
    /\ chapter \in {1, 2}
    /\ current_verse = <<>>
    /\ verse_text = <<>>
    /\ verse_index = <<>>
    /\ freq = <<>>
    /\ pc = "verses"
    /\ lineno = 1
    /\ VERBS = <<>>
    /\ VERB_LEXICON = <<>>
    /\ IRREGULAR_NOUN_ADJ_LEXICON = <<>>
    /\ word_data = <<>>
    /\ all_words_set = {}
    /\ wordno = 1
    /\ interpretations = <<>>
    /\ final_index = <<>>
    /\ call = NoCall
    /\ result = <<>>
    /\ history = <<>>

\* one pass of the loop over the lines: a line that is a number closes the
\* verse collected so far and starts the next, any other line is added to the
\* verse, if there is one
VerseLine ==
    /\ pc = "verses"
    /\ lineno <= Len(lines)
    /\ LET stripped == Strip(lines[lineno], {"SPACE"})
           verse_num == persian_to_int(stripped)
       IN  IF verse_num # <<>>
           THEN /\ IF current_verse # <<>>
                   THEN /\ verse_index' = IndexedVerse.index
                        /\ freq' = IndexedVerse.freq
                   ELSE UNCHANGED <<verse_index, freq>>
                /\ current_verse' = verse_num
                /\ verse_text' = <<>>
           ELSE IF current_verse # <<>>
           THEN /\ verse_text' = Append(verse_text, stripped)
                /\ UNCHANGED <<current_verse, verse_index, freq>>
           ELSE UNCHANGED <<current_verse, verse_text, verse_index, freq>>
    /\ lineno' = lineno + 1
    /\ UNCHANGED <<VERBS, VERB_LEXICON, IRREGULAR_NOUN_ADJ_LEXICON, lines, pc, chapter,
                   word_data, all_words_set, wordno, interpretations, final_index,
                   call, result, history>>

\* after the last line: the last verse is processed
LastVerse ==
    /\ pc = "verses"
    /\ lineno > Len(lines)
    /\ IF current_verse # <<>>
       THEN /\ verse_index' = IndexedVerse.index
            /\ freq' = IndexedVerse.freq
       ELSE UNCHANGED <<verse_index, freq>>
    /\ pc' = "indexed"
    /\ UNCHANGED <<VERBS, VERB_LEXICON, IRREGULAR_NOUN_ADJ_LEXICON, lines, lineno, chapter,
                   current_verse, verse_text,
                   word_data, all_words_set, wordno, interpretations, final_index,
                   call, result, history>>

NextChapter == VerseLine \/ LastVerse

SpecChapter == InitChapter /\ [][NextChapter]_vars

\* a line that consists of one or more digits
IsNumber(line) ==
    /\ Strip(line, {"SPACE"}) # <<>>
    /\ \A i \in 1..Len(Strip(line, {"SPACE"})) :
          Strip(line, {"SPACE"})[i] \in DOMAIN persian_digits

\* the lines before line k that consist of digits
NumbersBefore(k) == {i \in 1..(k - 1) : IsNumber(lines[i])}

\* C28 (verse references are well formed): every reference attached to a word
\* has a positive chapter and a positive verse number, and the verse being
\* collected was started by the last line so far that consists of digits (no
\* verse is being collected when there is no such line).
C28_VerseReferences ==
    pc \in {"verses", "indexed"} =>
        /\ \A e \in Range(verse_index) : \A ref \in Range(e.value) :
              /\ ref.book = book
              /\ ref.chapter \in Nat \ {0}
              /\ ref.verse \in Nat \ {0}
        /\ IF NumbersBefore(lineno) = {}
           THEN current_verse = <<>>
           ELSE \E i \in NumbersBefore(lineno) :
                   /\ \A j \in NumbersBefore(lineno) : j <= i
                   /\ current_verse = persian_to_int(Strip(lines[i], {"SPACE"}))

-----------------------------------------------------------------------------
(* Properties of the lookups in the finished index *)

\* the two spellings of a query
WithUnderscores(form) == Replace(form, "SPACE", "UNDERSCORE")
WithSpaces(form) == Replace(form, "UNDERSCORE", "SPACE")

\* the query names a compound stored in the index with an underscore
StoredCompound(form) ==
    /\ "UNDERSCORE" \in Range(WithUnderscores(form))
    /\ \E e \in IndexEntries(final_index) : e.item.form = WithUnderscores(form)

\* what get_form_occurrences_any may return for a form, over the orders in
\* which its candidate roots are iterated
AnyOccurrences(form) ==
    { get_form_occurrences_any(form, order, final_index) :
        order \in ListsOfSet(CandidateRoots(form, create_form_to_root_map(final_index))) }

\* C29 (space/underscore equivalence in lookups): a lookup of a stored compound
\* returns what the same lookup returns for the query written with spaces and
\* for the query written with underscores.
C29_SpaceUnderscore ==
    (pc = "done" /\ call.op = "search_grammatical_forms" /\ StoredCompound(call.arg) =>
        LET form_to_root_map == create_form_to_root_map(final_index)
        IN  /\ result = search_grammatical_forms(WithSpaces(call.arg), form_to_root_map,
                                                 final_index)
            /\ result = search_grammatical_forms(WithUnderscores(call.arg),
                                                 form_to_root_map, final_index))
    /\ (pc = "done" /\ call.op = "get_form_occurrences" /\ StoredCompound(call.arg[2]) =>
            /\ result = get_form_occurrences(call.arg[1], WithSpaces(call.arg[2]),
                                             final_index)
            /\ result = get_form_occurrences(call.arg[1], WithUnderscores(call.arg[2]),
                                             final_index))
    /\ (pc = "done" /\ call.op = "get_form_occurrences_any" /\ StoredCompound(call.arg) =>
            /\ result \in AnyOccurrences(WithSpaces(call.arg))
            /\ result \in AnyOccurrences(WithUnderscores(call.arg)))

\* C30 (per-form occurrence totals): the count build_form_occurrence_index
\* holds for an indexed form, and the count get_form_occurrences_any returns
\* for it, is the count of the form's record in word_data.
C30_PerFormTotals ==
    /\ (pc = "done" /\ call.op = "build_form_occurrence_index" =>
            \A k \in 1..Len(word_data) :
                LET key == normalize_pashto_char(WithSpaces(word_data[k].key))
                IN  /\ HasKey(result, key)
                    /\ Get(result, key).value.count = word_data[k].count)
    /\ (pc = "done" /\ call.op = "get_form_occurrences_any"
            /\ HasKey(word_data, call.arg) =>
            result.count = Get(word_data, call.arg).count)

====
